---------------------------- MODULE Spec2Model ----------------------------
(***************************************************************************)
(* A model of brpc: bidirectional gRPC over one multiplexed connection.   *)
(*                                                                         *)
(*   SpecNeg    the identity handshake (sendClientID / getClientID) on    *)
(*              one handshake sub-stream, byte by byte                     *)
(*   SpecReg    the client registry (clientMap) under concurrent callers, *)
(*              with its RWMutex                                           *)
(*   SpecML     the accept aggregator (multiListener): pumps, Accept,     *)
(*              Close, with Go's select and unbuffered channel semantics   *)
(*   SpecAdd    the aggregator with AddListener step by step, no Close     *)
(*   SpecErr    the pump's error branch and isTransientError on every     *)
(*              error value                                                *)
(*   SpecMLFair SpecML with the goroutines of the aggregator scheduled    *)
(*              fairly (the sources are the environment and are not)       *)
(*   SpecCFC    ClientFromContext applied to any metadata and registry    *)
(*   Spec       the server: per-connection handler, registry, calls that  *)
(*              resolve the caller with ClientFromContext                  *)
(*   SpecFair   Spec with every handler goroutine scheduled fairly        *)
(*   SpecOwnFair  SpecFair with calls that carry one identity only        *)
(*   SpecServe  the server with its shutdown signal and accept loop       *)
(*   SpecTeardown  the handler's and connect's set-up steps and closes    *)
(*   SpecClient the client: connect, interceptors, ServeClientService,    *)
(*              Close                                                      *)
(*   SpecClientFair  SpecClient with the client's goroutines scheduled    *)
(*              fairly                                                     *)
(*   SpecServeFair  SpecServe with its goroutines scheduled fairly        *)
(***************************************************************************)
EXTENDS Integers, Sequences, FiniteSets, TLC

(***************************************************************************)
(* Bounds of the model and constants of the program.                      *)
(***************************************************************************)
\* len(uuid.UUID): the identity is 16 raw bytes
IdLen == 16
\* how many distinct identities uuid.New() can return in the model
NumIds == 2

Min(a, b) == IF a < b THEN a ELSE b

\* how often x occurs in the sequence q
Count(q, x) == Cardinality({i \in 1..Len(q) : q[i] = x})

\* errors are multierr lists: nil is the empty list
NoErr == << >>
multierrAppendLast(e1, e2) == IF e2 # << >> THEN e2 ELSE e1
multierrAppend(e1, e2) == e1 \o e2

(***************************************************************************)
(* uuid.UUID, its text form (UUID.String) and uuid.Parse.                  *)
(***************************************************************************)
\* var id uuid.UUID : the zero value
ZeroUUID == [i \in 1..IdLen |-> 0]

MkUUID(k) == [i \in 1..IdLen |-> (k * 37 + i * 11) % 256]

\* the values uuid.New() returns
UUIDs == {MkUUID(k) : k \in 1..NumIds}

HexChars == <<"0", "1", "2", "3", "4", "5", "6", "7",
              "8", "9", "a", "b", "c", "d", "e", "f">>

\* encodeHex: two lower-case hex digits per byte, dashes after bytes 4, 6, 8, 10
DashAfter == {4, 6, 8, 10}

RECURSIVE encodeHex(_, _)
encodeHex(u, i) ==
    IF i > IdLen THEN << >>
    ELSE <<HexChars[(u[i] \div 16) + 1], HexChars[(u[i] % 16) + 1]>>
         \o (IF i \in DashAfter THEN <<"-">> ELSE << >>)
         \o encodeHex(u, i + 1)

UUIDString(u) == encodeHex(u, 1)

\* xvalues: the value of a hex digit, 255 for any other character
xvalue(ch) ==
    CASE ch \in {"0"} -> 0 [] ch = "1" -> 1 [] ch = "2" -> 2 [] ch = "3" -> 3
      [] ch = "4" -> 4 [] ch = "5" -> 5 [] ch = "6" -> 6 [] ch = "7" -> 7
      [] ch = "8" -> 8 [] ch = "9" -> 9
      [] ch \in {"a", "A"} -> 10 [] ch \in {"b", "B"} -> 11
      [] ch \in {"c", "C"} -> 12 [] ch \in {"d", "D"} -> 13
      [] ch \in {"e", "E"} -> 14 [] ch \in {"f", "F"} -> 15
      [] OTHER -> 255

\* xtob: two hex digits to one byte
xtobOk(c1, c2) == xvalue(c1) # 255 /\ xvalue(c2) # 255
xtob(c1, c2) == xvalue(c1) * 16 + xvalue(c2)

\* 1-based offsets of the 16 byte pairs in xxxxxxxx-xxxx-xxxx-xxxx-xxxxxxxxxxxx
PairAt == <<1, 3, 5, 7, 10, 12, 15, 17, 20, 22, 25, 27, 29, 31, 33, 35>>

toLower(ch) ==
    CASE ch = "U" -> "u" [] ch = "R" -> "r" [] ch = "N" -> "n"
      [] ch = "I" -> "i" [] ch = "D" -> "d" [] OTHER -> ch

UrnPrefix == <<"u", "r", "n", ":", "u", "u", "i", "d", ":">>

\* uuid.Parse(s): [ok, id]
ParseDashed(s) ==
    IF s[9] # "-" \/ s[14] # "-" \/ s[19] # "-" \/ s[24] # "-"
    THEN [ok |-> FALSE, id |-> ZeroUUID]
    ELSE IF \A i \in 1..IdLen : xtobOk(s[PairAt[i]], s[PairAt[i] + 1])
         THEN [ok |-> TRUE,
               id |-> [i \in 1..IdLen |-> xtob(s[PairAt[i]], s[PairAt[i] + 1])]]
         ELSE [ok |-> FALSE, id |-> ZeroUUID]

UUIDParse(s) ==
    CASE Len(s) = 36 -> ParseDashed(s)
      [] Len(s) = 36 + 9 ->
            IF [i \in 1..9 |-> toLower(s[i])] # UrnPrefix
            THEN [ok |-> FALSE, id |-> ZeroUUID]
            ELSE ParseDashed(SubSeq(s, 10, Len(s)))
      [] Len(s) = 36 + 2 -> ParseDashed(SubSeq(s, 2, Len(s)))
      [] Len(s) = 32 ->
            IF \A i \in 1..IdLen : xtobOk(s[2 * i - 1], s[2 * i])
            THEN [ok |-> TRUE,
                  id |-> [i \in 1..IdLen |-> xtob(s[2 * i - 1], s[2 * i])]]
            ELSE [ok |-> FALSE, id |-> ZeroUUID]
      [] OTHER -> [ok |-> FALSE, id |-> ZeroUUID]

VARIABLES
    \* ---- the identity handshake (SpecNeg)
    nsend,      \* sendClientID: [pc, id, err], and as history [n, werr, closes, cerr]:
                \* what Write returned, the calls of conn.Close, what Close returned
    nstream,    \* the handshake sub-stream: [open, buf, wclosed]
    nget,       \* getClientID: [pc, id, n, err]
    \* ---- the client registry (SpecReg, Spec)
    clients,     \* clientMap.clients: identity -> callback proxy
    clientsLock, \* clientMap.clientsLock: [writer, readers]
    rt,          \* SpecReg: the callers of the registry, one record each
    succ,        \* SpecReg, history: successful adds of an identity since it was last deleted
    firstReg,    \* SpecReg, history: the proxy first inserted for an identity since it was last deleted
    addDone,     \* SpecReg, history: identity -> proxy of an add that returned, no remove called since
    rmDone,      \* SpecReg, history: identities whose remove returned, no add called since
    \* ---- the accept aggregator (SpecML, SpecMLFair)
    mlListeners, \* ml.listeners
    mlClosed,    \* ml.closeChan is closed
    mlWg,        \* ml.wg
    mlErrChan,   \* ml.errChan (buffered, capacity 1)
    mlWarned,    \* the sources whose error the pump logged with slog.Warn
    adding,      \* AddListener(s): "no", "appended", "spawned"
    pump,        \* the pump goroutine of each source: [pc, hold], and as history [errs, got]
    src,         \* each source: [pending, produced, err: "none", "failed", "closed"]
    acc,         \* the caller of Accept: [pc, res]
    dcount,      \* history: how often Accept returned each session
    mlClose,     \* the caller of Close: [pc, i, err], and as history [called]
    mlLock,      \* ml.listenersLock: the source whose AddListener call holds it, or 0 (SpecAdd)
    addCopy,     \* the slice each AddListener call read for its append (SpecAdd)
    \* ---- the server (Spec, SpecFair)
    h,           \* the handler goroutine of each raw connection: [pc, id, err, defers, removed,
                 \* closed], and as history [made, ran]: what it created, the deferred calls it ran;
                 \* peerErr: the client's side of the negotiation failed
    connDone,    \* conn.Context().Done() of each raw connection has fired
    added,       \* the connections handed to the aggregator with AddListener, in order
    call,        \* the last ClientFromContext call: its metadata, its result, the registry it saw
    ctxDone,     \* the context passed to Serve is cancelled (the shutdown signal)
    loop,        \* Serve's accept goroutine: "accept", "failed" (Accept returned an error), "stopped"
    \* ---- the client (SpecClient)
    cc,          \* the ClientConn and its connect: [pc, uuid, conn, err]
    server,      \* c.server: "nil", "created", "serving", "stopped"
    svc,         \* the goroutine in ServeClientService
    watch,       \* the goroutine ServeClientService starts to wait for shutdown
    shutdown,    \* the shutdown channel given to ServeClientService is closed
    closer,      \* the caller of ClientConn.Close
    out          \* the last call issued through the client handle: [kind, pre, ids]

negVars == <<nsend, nstream, nget>>
regVars == <<clients, clientsLock, rt, succ, firstReg, addDone, rmDone>>

mlVars == <<mlListeners, mlClosed, mlWg, mlErrChan, mlWarned, adding, pump, src, acc,
            dcount, mlClose, mlLock, addCopy>>
addVars == <<mlLock, addCopy>>
loopVars == <<ctxDone, loop>>
srvVars == <<h, connDone, added, call, ctxDone, loop>>
cliVars == <<cc, server, svc, watch, shutdown, closer, out>>
\* the registry's variables that the server's steps leave alone
regRest == <<clientsLock, rt, succ, firstReg, addDone, rmDone>>

vars == <<nsend, nstream, nget, clients, clientsLock, rt, succ, firstReg, addDone, rmDone,
          mlListeners, mlClosed, mlWg, mlErrChan, mlWarned, adding, pump, src, acc,
          dcount, mlClose, mlLock, addCopy, h, connDone, added, call, ctxDone, loop,
          cc, server, svc, watch, shutdown, closer, out>>

(***************************************************************************)
(* The identity handshake: helpers.go sendClientID and getClientID.       *)
(***************************************************************************)
InitNeg ==
    /\ nsend = [pc |-> "dial", id |-> ZeroUUID, err |-> NoErr,
                n |-> 0, werr |-> FALSE, closes |-> 0, cerr |-> FALSE]
    /\ nstream = [open |-> FALSE, buf |-> << >>, wclosed |-> FALSE]
    /\ nget = [pc |-> "accept", id |-> ZeroUUID, n |-> 0, err |-> NoErr]

\* conn.Write(id[:]) puts the first n bytes on the stream
WriteBytes(id, n) == SubSeq(id, 1, n)

\* sendClientID's result after Write returned (n, err)
SendCheck(werr, n) ==
    IF werr THEN <<"write">>
    ELSE IF n # IdLen THEN <<"wrote n bytes, expected 16">>
    ELSE NoErr

\* id = uuid.New(); conn, err := dialer(); if err != nil { return id, err }
sendDial ==
    /\ UNCHANGED <<regVars, mlVars, srvVars, cliVars>>
    /\ nsend.pc = "dial"
    /\ \E id \in UUIDs, ok \in BOOLEAN :
         IF ok
         THEN /\ nsend' = [nsend EXCEPT !.pc = "write", !.id = id]
              /\ nstream' = [nstream EXCEPT !.open = TRUE]
         ELSE /\ nsend' = [nsend EXCEPT !.pc = "done", !.id = id, !.err = <<"dial">>]
              /\ UNCHANGED nstream
    /\ UNCHANGED nget

\* defer multierr.AppendFunc(&err, conn.Close) is registered before the
\* write: whatever the write and the two checks give, the deferred close is
\* what runs next
AfterWriteSkipsClose(e) == IF e # NoErr THEN "done" ELSE "close"
AfterWrite(e) == "close"

\* n, err := conn.Write(id[:]) and the two checks after it
sendWrite ==
    /\ UNCHANGED <<regVars, mlVars, srvVars, cliVars>>
    /\ nsend.pc = "write"
    /\ \E n \in 0..IdLen, werr \in BOOLEAN :
         /\ nstream' = [nstream EXCEPT !.buf = @ \o WriteBytes(nsend.id, n)]
         /\ nsend' = [nsend EXCEPT !.pc = AfterWrite(SendCheck(werr, n)),
                                   !.err = SendCheck(werr, n),
                                   !.n = n, !.werr = werr]
    /\ UNCHANGED nget

\* defer multierr.AppendFunc(&err, conn.Close)
sendClose ==
    /\ UNCHANGED <<regVars, mlVars, srvVars, cliVars>>
    /\ nsend.pc = "close"
    /\ \E cerr \in BOOLEAN :
         nsend' = [nsend EXCEPT
                     !.pc = "done",
                     !.err = multierrAppend(@, IF cerr THEN <<"close">> ELSE NoErr),
                     !.closes = @ + 1,
                     !.cerr = cerr]
    /\ nstream' = [nstream EXCEPT !.wclosed = TRUE]
    /\ UNCHANGED nget

\* conn, err := listener.Accept(); if err != nil { return id, err }
getAccept ==
    /\ UNCHANGED <<regVars, mlVars, srvVars, cliVars>>
    /\ nget.pc = "accept"
    /\ \/ /\ nstream.open
          /\ nget' = [nget EXCEPT !.pc = "read"]
       \/ nget' = [nget EXCEPT !.pc = "done", !.err = <<"accept">>]
    /\ UNCHANGED <<nsend, nstream>>

\* conn.Read(id[:]) copies the first n bytes it got into id
ReadInto(id, buf, n) == [i \in 1..IdLen |-> IF i <= n THEN buf[i] ELSE id[i]]

\* getClientID's result after Read returned (n, err)
GetCheckMissing(rerr, n) ==
    IF rerr # NoErr THEN rerr ELSE NoErr

GetCheck(rerr, n) ==
    IF rerr # NoErr THEN rerr
    ELSE IF n # IdLen THEN <<"read n bytes, expected 16">>
    ELSE NoErr

\* n, err := conn.Read(id[:]) and the two checks after it.  One Read returns
\* between 1 and len(id) of the buffered bytes; at the end of the stream it may
\* report io.EOF with the last bytes or alone; it may fail.
getRead ==
    /\ UNCHANGED <<regVars, mlVars, srvVars, cliVars>>
    /\ nget.pc = "read"
    /\ \/ \E n \in 1..Min(Len(nstream.buf), IdLen), eof \in BOOLEAN :
            /\ eof => (nstream.wclosed /\ n = Len(nstream.buf))
            /\ nget' = [nget EXCEPT
                          !.pc = "done",
                          !.id = ReadInto(@, nstream.buf, n),
                          !.n = n,
                          !.err = GetCheck(IF eof THEN <<"EOF">> ELSE NoErr, n)]
            /\ nstream' = [nstream EXCEPT !.buf = SubSeq(@, n + 1, Len(@))]
       \/ /\ nstream.buf = << >>
          /\ nstream.wclosed
          /\ nget' = [nget EXCEPT !.pc = "done", !.err = GetCheck(<<"EOF">>, 0)]
          /\ UNCHANGED nstream
       \/ /\ nget' = [nget EXCEPT !.pc = "done", !.err = GetCheck(<<"read">>, 0)]
          /\ UNCHANGED nstream
    /\ UNCHANGED nsend

NextNeg ==
    \/ sendDial
    \/ sendWrite
    \/ sendClose
    \/ getAccept
    \/ getRead

\* C1: when sendClientID and getClientID have both returned without error,
\* the identity getClientID returns is byte for byte the identity that
\* sendClientID generated and returned.
C1_SameIdentity ==
    (nsend.pc = "done" /\ nsend.err = NoErr /\ nget.pc = "done" /\ nget.err = NoErr)
        => (nget.id = nsend.id /\ Len(nget.id) = IdLen)

C1_Witness ==
    /\ nsend.pc = "done" /\ nsend.err = NoErr
    /\ nget.pc = "done" /\ nget.err = NoErr
    /\ nget.id \in UUIDs

(* C31: sendClientID hands the 16 identity bytes to one Write on the      *)
(* sub-stream and closes the sub-stream exactly once on every path after  *)
(* it was opened (complete write, write error, short write) and never     *)
(* when the dial failed; it returns no error only if all 16 bytes were    *)
(* written and neither Write nor Close failed; a Close error is appended  *)
(* to the error of the write, which is kept.                              *)
C31_SenderClosesOnce ==
    /\ nsend.closes <= 1
    /\ nsend.pc # "done" => nsend.closes = 0
    /\ nsend.pc = "done" =>
         /\ nsend.closes = (IF nstream.open THEN 1 ELSE 0)
         /\ nsend.err = NoErr =>
               /\ nstream.open /\ nsend.n = IdLen
               /\ ~nsend.werr /\ ~nsend.cerr
               /\ nget.pc # "done" => nstream.buf = nsend.id
         /\ nsend.cerr => nsend.err[Len(nsend.err)] = "close"
         /\ nsend.werr => nsend.err[1] = "write"
         /\ (~nsend.werr /\ nstream.open /\ nsend.n # IdLen) =>
               nsend.err[1] = "wrote n bytes, expected 16"

\* a short write followed by a failing Close: both errors are returned
C31_Witness ==
    /\ nsend.pc = "done" /\ nstream.open
    /\ nsend.closes = 1 /\ nsend.cerr
    /\ ~nsend.werr /\ nsend.n < IdLen
    /\ nsend.err = <<"wrote n bytes, expected 16", "close">>

(* C19: getClientID succeeds exactly when all 16 identity bytes arrive:   *)
(* the 16th byte reported together with end-of-stream is success, and a   *)
(* read that returns fewer than 16 bytes without end-of-stream is not by  *)
(* itself a failure.                                                      *)
ErrShortRead == <<"read n bytes, expected 16">>
C19_ReadSucceedsIffAllBytes ==
    nget.pc = "done" =>
        /\ nget.n = IdLen => nget.err = NoErr
        /\ nget.err = NoErr => nget.n = IdLen
        /\ nget.err # ErrShortRead

(***************************************************************************)
(* The client registry: server_client_map.go clientMap (the snapshot whose *)
(* add returns an error; the earlier snapshot's add stored unconditionally).*)
(***************************************************************************)
\* how many connections (and so callback proxies) there are
NumConns == 2

Conns == 1..NumConns
\* SpecReg: the goroutines that call the registry concurrently, one per
\* connection; each registers the proxy it built over its own connection
Callers == Conns

\* s.clientServiceBuilder(grpcClient): the callback proxy over connection c
Proxy(c) == [conn |-> c]
Proxies == {Proxy(c) : c \in Conns}
\* var client C : the zero value
ZeroClient == [conn |-> 0]

\* make(map[uuid.UUID]ClientService)
EmptyMap == [x \in {} |-> ZeroClient]
mapHas(m, id) == id \in DOMAIN m
mapPut(m, id, p) == [x \in DOMAIN m \cup {id} |-> IF x = id THEN p ELSE m[x]]
mapDeleteOrClear(m, id) == IF id \in DOMAIN m THEN [x \in DOMAIN m \ {id} |-> m[x]] ELSE EmptyMap
mapDeleteAll(m, id) == EmptyMap
mapDelete(m, id) == [x \in DOMAIN m \ {id} |-> m[x]]
mapGetMissing(m, id) == [client |-> ZeroClient, ok |-> FALSE]
mapGet(m, id) ==
    IF id \in DOMAIN m THEN [client |-> m[id], ok |-> TRUE]
    ELSE [client |-> ZeroClient, ok |-> FALSE]

ErrExists == <<"client already exists">>

\* add: if _, ok := c.clients[id]; ok { return errors.New(...) }
AddCheckEarlier(m, id) == FALSE
AddCheck(m, id) == mapHas(m, id)

\* sync.RWMutex: Lock waits for no writer and no reader, RLock for no writer
CanLockBroken(l) == TRUE
CanLock(l) == l.writer = 0 /\ l.readers = {}
CanRLock(l) == l.writer = 0

\* the three operations as the server's handler and ClientFromContext see
\* them: each runs wholly under the lock
clientMapAdd(m, id, p) ==
    IF AddCheck(m, id) THEN [m |-> m, err |-> ErrExists]
    ELSE [m |-> mapPut(m, id, p), err |-> NoErr]
clientMapRemoveNoop(m, id) == m
clientMapRemove(m, id) == mapDelete(m, id)
clientMapGet(m, id) == mapGet(m, id)

AnyExp == [kind |-> "any", p |-> ZeroClient]
IdleCaller ==
    [pc |-> "idle", op |-> "none", id |-> ZeroUUID, p |-> ZeroClient,
     err |-> NoErr, client |-> ZeroClient, found |-> FALSE,
     pre |-> EmptyMap, exp |-> AnyExp, taint |-> FALSE]

InitReg ==
    /\ clients = EmptyMap
    /\ clientsLock = [writer |-> 0, readers |-> {}]
    /\ rt = [t \in Callers |-> IdleCaller]
    /\ succ = [id \in UUIDs |-> 0]
    /\ firstReg = EmptyMap
    /\ addDone = EmptyMap
    /\ rmDone = {}

\* caller u is inside a call of op on id
InCall(u, op, id) == rt[u].pc # "idle" /\ rt[u].op = op /\ rt[u].id = id

\* a goroutine calls add(id, p), remove(id) or get(id)
regCall(t) ==
    /\ UNCHANGED <<negVars, mlVars, srvVars, cliVars>>
    /\ rt[t].pc = "idle"
    /\ \E op \in {"add", "remove", "get"}, id \in UUIDs :
         LET p == Proxy(t)
             other == IF op = "add" THEN "remove" ELSE "add"
             me == [IdleCaller EXCEPT
                      !.pc = "lock", !.op = op, !.id = id,
                      !.p = IF op = "add" THEN p ELSE ZeroClient,
                      !.taint = \E u \in Callers \ {t} : InCall(u, other, id),
                      !.exp = IF op # "get" THEN AnyExp
                              ELSE IF mapHas(addDone, id)
                                   THEN [kind |-> "present", p |-> addDone[id]]
                              ELSE IF id \in rmDone
                                   THEN [kind |-> "absent", p |-> ZeroClient]
                              ELSE AnyExp]
         IN /\ rt' = [u \in Callers |->
                        IF u = t THEN me
                        ELSE IF op = "remove" /\ InCall(u, "get", id)
                                /\ rt[u].exp.kind = "present"
                             THEN [rt[u] EXCEPT !.exp = AnyExp]
                        ELSE IF op = "add" /\ InCall(u, "get", id)
                                /\ rt[u].exp.kind = "absent"
                             THEN [rt[u] EXCEPT !.exp = AnyExp]
                        ELSE IF op = "add" /\ InCall(u, "remove", id)
                             THEN [rt[u] EXCEPT !.taint = TRUE]
                        ELSE IF op = "remove" /\ InCall(u, "add", id)
                             THEN [rt[u] EXCEPT !.taint = TRUE]
                        ELSE rt[u]]
            /\ addDone' = IF op = "remove" THEN mapDelete(addDone, id) ELSE addDone
            /\ rmDone' = IF op = "add" THEN rmDone \ {id} ELSE rmDone
    /\ UNCHANGED <<clients, clientsLock, succ, firstReg>>

\* c.clientsLock.Lock() in add and remove
regLock(t) ==
    /\ UNCHANGED <<negVars, mlVars, srvVars, cliVars>>
    /\ rt[t].pc = "lock"
    /\ rt[t].op \in {"add", "remove"}
    /\ CanLock(clientsLock)
    /\ clientsLock' = [clientsLock EXCEPT !.writer = t]
    /\ rt' = [rt EXCEPT ![t].pc = IF rt[t].op = "add" THEN "check" ELSE "delete",
                        ![t].pre = clients]
    /\ UNCHANGED <<clients, succ, firstReg, addDone, rmDone>>

\* c.clientsLock.RLock() in get
regRLock(t) ==
    /\ UNCHANGED <<negVars, mlVars, srvVars, cliVars>>
    /\ rt[t].pc = "lock"
    /\ rt[t].op = "get"
    /\ CanRLock(clientsLock)
    /\ clientsLock' = [clientsLock EXCEPT !.readers = @ \cup {t}]
    /\ rt' = [rt EXCEPT ![t].pc = "read", ![t].pre = clients]
    /\ UNCHANGED <<clients, succ, firstReg, addDone, rmDone>>

\* add: the presence check, and the early return
regAddCheck(t) ==
    /\ UNCHANGED <<negVars, mlVars, srvVars, cliVars>>
    /\ rt[t].pc = "check"
    /\ IF AddCheck(clients, rt[t].id)
       THEN rt' = [rt EXCEPT ![t].pc = "unlock", ![t].err = ErrExists]
       ELSE rt' = [rt EXCEPT ![t].pc = "insert"]
    /\ UNCHANGED <<clients, clientsLock, succ, firstReg, addDone, rmDone>>

\* add: c.clients[id] = client; return nil
regAddInsert(t) ==
    /\ UNCHANGED <<negVars, mlVars, srvVars, cliVars>>
    /\ rt[t].pc = "insert"
    /\ clients' = mapPut(clients, rt[t].id, rt[t].p)
    /\ firstReg' = IF mapHas(firstReg, rt[t].id) THEN firstReg
                   ELSE mapPut(firstReg, rt[t].id, rt[t].p)
    /\ rt' = [rt EXCEPT ![t].pc = "unlock", ![t].err = NoErr]
    /\ UNCHANGED <<clientsLock, succ, addDone, rmDone>>

\* remove: delete(c.clients, id)
regRemoveDelete(t) ==
    /\ UNCHANGED <<negVars, mlVars, srvVars, cliVars>>
    /\ rt[t].pc = "delete"
    /\ clients' = mapDelete(clients, rt[t].id)
    /\ firstReg' = [x \in DOMAIN firstReg \ {rt[t].id} |-> firstReg[x]]
    /\ succ' = [succ EXCEPT ![rt[t].id] = 0]
    /\ rt' = [rt EXCEPT ![t].pc = "unlock"]
    /\ UNCHANGED <<clientsLock, addDone, rmDone>>

\* get: client, ok := c.clients[id]
regGetRead(t) ==
    /\ UNCHANGED <<negVars, mlVars, srvVars, cliVars>>
    /\ rt[t].pc = "read"
    /\ LET r == mapGet(clients, rt[t].id)
       IN rt' = [rt EXCEPT ![t].pc = "unlock", ![t].client = r.client,
                           ![t].found = r.ok]
    /\ UNCHANGED <<clients, clientsLock, succ, firstReg, addDone, rmDone>>

\* the deferred Unlock / RUnlock, and the return to the caller
regUnlock(t) ==
    /\ UNCHANGED <<negVars, mlVars, srvVars, cliVars>>
    /\ rt[t].pc = "unlock"
    /\ clientsLock' =
         IF rt[t].op = "get" THEN [clientsLock EXCEPT !.readers = @ \ {t}]
         ELSE [clientsLock EXCEPT !.writer = IF @ = t THEN 0 ELSE @]
    /\ rt' = [rt EXCEPT ![t] = IdleCaller]
    /\ succ' = IF rt[t].op = "add" /\ rt[t].err = NoErr
               THEN [succ EXCEPT ![rt[t].id] = @ + 1] ELSE succ
    /\ addDone' = IF rt[t].op = "add" /\ rt[t].err = NoErr /\ ~rt[t].taint
                  THEN mapPut(addDone, rt[t].id, rt[t].p) ELSE addDone
    /\ rmDone' = IF rt[t].op = "remove" /\ ~rt[t].taint
                 THEN rmDone \cup {rt[t].id} ELSE rmDone
    /\ UNCHANGED <<clients, firstReg>>

NextReg ==
    \E t \in Callers :
        \/ regCall(t)
        \/ regLock(t)
        \/ regRLock(t)
        \/ regAddCheck(t)
        \/ regAddInsert(t)
        \/ regRemoveDelete(t)
        \/ regGetRead(t)
        \/ regUnlock(t)

\* caller t is about to return from op: its result is set, its lock still held
AtReturn(t, op) == rt[t].pc = "unlock" /\ rt[t].op = op

\* C4: an add that ran while the identity was registered returned the
\* already-registered error; an add that ran while it was absent inserted it
\* and returned nil; of the adds of one identity since it was last deleted at
\* most one returned nil.
C4_AddResult ==
    /\ \A t \in Callers :
         AtReturn(t, "add") =>
            IF rt[t].id \in DOMAIN rt[t].pre
            THEN rt[t].err = ErrExists
            ELSE /\ rt[t].err = NoErr
                 /\ clients = [x \in DOMAIN rt[t].pre \cup {rt[t].id} |->
                                    IF x = rt[t].id THEN rt[t].p ELSE rt[t].pre[x]]
    /\ \A id \in UUIDs : succ[id] <= 1

C4_Witness ==
    \E t, u \in Callers :
        /\ t # u
        /\ AtReturn(u, "add") /\ rt[u].err = ErrExists
        /\ rt[u].taint = FALSE /\ succ[rt[u].id] = 1
        /\ InCall(t, "add", rt[u].id)

\* C5: an add that found the identity registered left the whole registry as
\* it was (a lookup of the identity still gives the proxy it had), and every
\* registered identity maps to the proxy that was registered for it first.
C5_NoOverwrite ==
    /\ \A t \in Callers :
         (AtReturn(t, "add") /\ rt[t].err # NoErr) =>
            /\ rt[t].id \in DOMAIN rt[t].pre
            /\ clients = rt[t].pre
            /\ clientMapGet(clients, rt[t].id) =
                   [client |-> rt[t].pre[rt[t].id], ok |-> TRUE]
    /\ \A id \in DOMAIN clients : id \in DOMAIN firstReg /\ clients[id] = firstReg[id]

C5_Witness ==
    \E t \in Callers :
        /\ AtReturn(t, "add") /\ rt[t].err = ErrExists
        /\ rt[t].pre[rt[t].id] # rt[t].p
        /\ rt[t].id \in DOMAIN clients /\ clients[rt[t].id] = rt[t].pre[rt[t].id]
        /\ Cardinality(DOMAIN clients) = 2

C20_RemoveIdempotent ==
    \A t \in Callers :
        AtReturn(t, "remove") =>
            LET id == rt[t].id
                pre == rt[t].pre
            IN  /\ rt[t].err = NoErr
                /\ id \notin DOMAIN clients
                /\ DOMAIN clients = DOMAIN pre \ {id}
                /\ \A x \in DOMAIN clients : clients[x] = pre[x]
                /\ id \notin DOMAIN pre => clients = pre
                /\ clientMapRemove(clients, id) = clients
                /\ clientMapRemove(clientMapRemove(pre, id), id) = clientMapRemove(pre, id)
                /\ clientMapRemove(pre, id) = clients

\* a second remove of an identity, while another identity is registered
C20_Witness ==
    \E t \in Callers :
        /\ AtReturn(t, "remove")
        /\ rt[t].id \in rmDone
        /\ rt[t].id \notin DOMAIN rt[t].pre
        /\ rt[t].pre # EmptyMap
        /\ clients = rt[t].pre

(***************************************************************************)
(* The accept aggregator: helpers.go multiListener.                        *)
(*                                                                         *)
(* connChan is unbuffered: a value passes only between a goroutine that   *)
(* polls its select and a goroutine already parked in its select on the   *)
(* other side.  A select first polls its cases and takes one that is      *)
(* ready (any of them when several are); when none is it parks the        *)
(* goroutine on all its channels.  close(closeChan) takes every goroutine *)
(* parked on closeChan out of its select.                                  *)
(***************************************************************************)
\* how many accept sources are handed to AddListener
NumSources == 2
\* how many sessions each source produces
MaxSessions == 2

Sources == 1..NumSources
\* the k-th session that source s produces
Session(s, k) == <<s, k>>
Sessions == {Session(s, k) : s \in Sources, k \in 1..MaxSessions}
NoConn == <<0, 0>>

\* An error value is its chain of Unwrap, outermost first: "wrap" is
\* fmt.Errorf with %w, "op" a *net.OpError, "syscall" an *os.SyscallError;
\* a chain ends in net.ErrClosed, io.EOF, an errno, some other error, or in
\* an "op" or "syscall" whose Err is nil.
MaxErrDepth == 3
Wrappers == {"wrap", "op", "syscall"}
Leaves == {"closed", "EOF", "ECONNRESET", "EPIPE", "plain", "op", "syscall"}
Errors ==
    UNION {{e \in [1..n -> Wrappers \cup Leaves] :
              /\ e[n] \in Leaves
              /\ \A i \in 1..(n - 1) : e[i] \in Wrappers} : n \in 1..MaxErrDepth}
ErrClosed == <<"closed">>
\* the errors a source's Accept returns in SpecML: one transient, one not
SourceErrors == {<<"EOF">>, <<"plain">>}

\* errors.Is(err, target): some error of the chain is target
errorsIs(e, target) == \E i \in 1..Len(e) : e[i] = target
\* errors.As(err, &x): the position of the first error of x's type, or 0
errorsAs(e, type) ==
    IF \E i \in 1..Len(e) : e[i] = type
    THEN CHOOSE i \in 1..Len(e) : e[i] = type /\ \A j \in 1..(i - 1) : e[j] # type
    ELSE 0
\* x.Err of the wrapper at position i: the rest of the chain, << >> for nil
ErrOf(e, i) == SubSeq(e, i + 1, Len(e))

\* isTransientError
isTransientErrorAnySyscall(e) ==
    \/ errorsIs(e, "closed") \/ errorsIs(e, "EOF")
    \/ errorsAs(e, "op") # 0 /\ errorsAs(ErrOf(e, errorsAs(e, "op")), "syscall") # 0
isTransientError(e) ==
    IF errorsIs(e, "closed") \/ errorsIs(e, "EOF") THEN TRUE
    ELSE LET o == errorsAs(e, "op")
         IN  IF o # 0 /\ ErrOf(e, o) # << >>
             THEN LET inner == ErrOf(e, o)
                      y == errorsAs(inner, "syscall")
                  IN  y # 0 /\ ErrOf(inner, y) = <<"ECONNRESET">>
             ELSE FALSE

\* newMultiListener, before any AddListener
InitML ==
    /\ mlListeners = << >>
    /\ mlClosed = FALSE
    /\ mlWg = 0
    /\ mlErrChan = << >>
    /\ mlWarned = {}
    /\ adding = [s \in Sources |-> "no"]
    /\ pump = [s \in Sources |-> [pc |-> "none", hold |-> NoConn, errs |-> 0, got |-> << >>]]
    /\ src = [s \in Sources |-> [pending |-> << >>, produced |-> 0, err |-> "none"]]
    /\ acc = [pc |-> "idle", res |-> "none"]
    /\ dcount = [x \in Sessions |-> 0]
    /\ mlClose = [pc |-> "idle", i |-> 0, err |-> NoErr, called |-> << >>]
    /\ mlLock = 0
    /\ addCopy = [s \in Sources |-> << >>]

\* ---- the sources (the environment of the aggregator)

\* a new session (sub-stream) arrives at source s
srcProduce(s) ==
    /\ UNCHANGED <<negVars, regVars, srvVars, cliVars, addVars>>
    /\ src[s].err = "none"
    /\ src[s].produced < MaxSessions
    /\ src' = [src EXCEPT ![s].produced = @ + 1,
                          ![s].pending = Append(@, Session(s, src[s].produced + 1))]
    /\ UNCHANGED <<mlListeners, mlClosed, mlWg, mlErrChan, mlWarned, adding, pump,
                   acc, dcount, mlClose>>

\* source s breaks (its connection is reset, closed or ends): from now on its
\* Accept returns an error
srcFail(s) ==
    /\ UNCHANGED <<negVars, regVars, srvVars, cliVars, addVars>>
    /\ src[s].err = "none"
    /\ src' = [src EXCEPT ![s].err = "failed"]
    /\ UNCHANGED <<mlListeners, mlClosed, mlWg, mlErrChan, mlWarned, adding, pump,
                   acc, dcount, mlClose>>

\* ---- AddListener

\* ml.listenersLock.Lock(); ml.listeners = append(ml.listeners, l); Unlock()
addAppend(s) ==
    /\ UNCHANGED <<negVars, regVars, srvVars, cliVars, addVars>>
    /\ adding[s] = "no"
    /\ mlClose.pc = "idle"
    /\ adding' = [adding EXCEPT ![s] = "appended"]
    /\ mlListeners' = Append(mlListeners, s)
    /\ UNCHANGED <<mlClosed, mlWg, mlErrChan, mlWarned, pump, src, acc, dcount, mlClose>>

\* ml.wg.Add(1); go func() { ... }()
addSpawn(s) ==
    /\ UNCHANGED <<negVars, regVars, srvVars, cliVars, addVars>>
    /\ adding[s] = "appended"
    /\ adding' = [adding EXCEPT ![s] = "spawned"]
    /\ mlWg' = mlWg + 1
    /\ pump' = [pump EXCEPT ![s].pc = "accept"]
    /\ UNCHANGED <<mlListeners, mlClosed, mlErrChan, mlWarned, src, acc, dcount, mlClose>>

\* ---- the pump goroutine of source s

\* what the error of one source does to closeChan, which all pumps and Accept
\* share: nothing, only that source's pump returns
AfterSourceErrorCloses(closed) == TRUE
AfterSourceError(closed) == closed

\* the pump after l.Accept() returned an error: it returns (errs counts, as
\* history, the errors that the source's Accept has returned to it, and got
\* is the last of them)
PumpRetriesOnError(p) == [p EXCEPT !.errs = Min(@ + 1, 2)]
PumpOnError(p) == [p EXCEPT !.pc = "exit", !.errs = Min(@ + 1, 2)]

\* the pump after l.Accept() returned the session x: it goes to the select
\* that hands x over, and only after that to the next l.Accept()
PumpTakesNext(p, x) == [p EXCEPT !.pc = "accept", !.hold = x]
PumpTake(p, x) == [p EXCEPT !.pc = "select", !.hold = x]

\* what the pump does to errChan with the error e of its source: nothing, the
\* error branch only logs and returns
ErrChanPosted(ch, e) == IF Len(ch) < 1 THEN Append(ch, e) ELSE ch
ErrChanOnError(ch, e) == ch

\* conn, err := l.Accept(), where a broken source returns an error of E; on
\* an error: warn unless transient, and return
pumpAcceptFrom(s, E) ==
    /\ UNCHANGED <<negVars, regVars, srvVars, cliVars, addVars>>
    /\ pump[s].pc = "accept"
    /\ \/ /\ src[s].pending # << >>
          /\ pump' = [pump EXCEPT ![s] = PumpTake(@, Head(src[s].pending))]
          /\ src' = [src EXCEPT ![s].pending = Tail(@)]
          /\ UNCHANGED <<mlWarned, mlClosed, mlErrChan>>
       \/ /\ src[s].err # "none"
          /\ \E e \in (IF src[s].err = "closed" THEN {ErrClosed} ELSE E) :
               /\ pump' = [pump EXCEPT ![s] = [PumpOnError(@) EXCEPT !.got = e]]
               /\ mlErrChan' = ErrChanOnError(mlErrChan, e)
               /\ mlWarned' = IF isTransientError(e) THEN mlWarned
                              ELSE mlWarned \cup {s}
          /\ mlClosed' = AfterSourceError(mlClosed)
          /\ UNCHANGED src
    /\ UNCHANGED <<mlListeners, mlWg, adding, acc, dcount, mlClose>>

pumpAccept(s) == pumpAcceptFrom(s, SourceErrors)

\* the pump after its send on connChan went through: the next iteration
PumpResends(p) == [p EXCEPT !.pc = "select"]
PumpAfterSend(p) == [p EXCEPT !.pc = "accept", !.hold = NoConn]

\* select { case ml.connChan <- conn: ; case <-ml.closeChan: return }
pumpSelect(s) ==
    /\ UNCHANGED <<negVars, regVars, srvVars, cliVars, addVars>>
    /\ pump[s].pc = "select"
    /\ \/ /\ acc.pc = "parked"
          /\ acc' = [pc |-> "idle", res |-> "conn"]
          /\ dcount' = [dcount EXCEPT ![pump[s].hold] = @ + 1]
          /\ pump' = [pump EXCEPT ![s] = PumpAfterSend(@)]
       \/ /\ mlClosed
          /\ pump' = [pump EXCEPT ![s].pc = "exit"]
          /\ UNCHANGED <<acc, dcount>>
       \/ /\ acc.pc # "parked"
          /\ ~mlClosed
          /\ pump' = [pump EXCEPT ![s].pc = "parked"]
          /\ UNCHANGED <<acc, dcount>>
    /\ UNCHANGED <<mlListeners, mlClosed, mlWg, mlErrChan, mlWarned, adding, src, mlClose>>

\* defer ml.wg.Done()
pumpExit(s) ==
    /\ UNCHANGED <<negVars, regVars, srvVars, cliVars, addVars>>
    /\ pump[s].pc = "exit"
    /\ pump' = [pump EXCEPT ![s].pc = "done"]
    /\ mlWg' = mlWg - 1
    /\ UNCHANGED <<mlListeners, mlClosed, mlErrChan, mlWarned, adding, src, acc, dcount,
                   mlClose>>

\* ---- Accept, called by the gRPC server's serve loop

accCall ==
    /\ UNCHANGED <<negVars, regVars, srvVars, cliVars, addVars>>
    /\ acc.pc = "idle"
    /\ acc' = [pc |-> "select", res |-> "none"]
    /\ UNCHANGED <<mlListeners, mlClosed, mlWg, mlErrChan, mlWarned, adding, pump, src,
                   dcount, mlClose>>

\* select { case conn := <-ml.connChan: ; case err := <-ml.errChan: ;
\*          case <-ml.closeChan: return nil, net.ErrClosed }
accSelect ==
    /\ UNCHANGED <<negVars, regVars, srvVars, cliVars, addVars>>
    /\ acc.pc = "select"
    /\ \/ /\ \E s \in Sources :
               /\ pump[s].pc = "parked"
               /\ acc' = [pc |-> "idle", res |-> "conn"]
               /\ dcount' = [dcount EXCEPT ![pump[s].hold] = @ + 1]
               /\ pump' = [pump EXCEPT ![s] = PumpAfterSend(@)]
          /\ UNCHANGED mlErrChan
       \/ /\ mlErrChan # << >>
          /\ acc' = [pc |-> "idle", res |-> "err"]
          /\ mlErrChan' = Tail(mlErrChan)
          /\ UNCHANGED <<pump, dcount>>
       \/ /\ mlClosed
          /\ acc' = [pc |-> "idle", res |-> "closed"]
          /\ UNCHANGED <<pump, dcount, mlErrChan>>
       \/ /\ \A s \in Sources : pump[s].pc # "parked"
          /\ mlErrChan = << >>
          /\ ~mlClosed
          /\ acc' = [acc EXCEPT !.pc = "parked"]
          /\ UNCHANGED <<pump, dcount, mlErrChan>>
    /\ UNCHANGED <<mlListeners, mlClosed, mlWg, mlWarned, adding, src, mlClose>>

\* ---- Close

\* what close(ml.closeChan) does to a pump: one parked in its select leaves
\* it by the closeChan case and returns
PumpIgnoresClose(p) == p
PumpOnClose(p) == IF p.pc = "parked" THEN [p EXCEPT !.pc = "exit"] ELSE p

\* close(ml.closeChan)
mlCloseSignal ==
    /\ UNCHANGED <<negVars, regVars, srvVars, cliVars, addVars>>
    /\ mlClose.pc = "idle"
    /\ \A s \in Sources : adding[s] # "appended"
    /\ mlClosed' = TRUE
    /\ pump' = [s \in Sources |-> PumpOnClose(pump[s])]
    /\ acc' = IF acc.pc = "parked"
              THEN [pc |-> "idle", res |-> "closed"]
              ELSE acc
    /\ mlClose' = [mlClose EXCEPT !.pc = "wait"]
    /\ UNCHANGED <<mlListeners, mlWg, mlErrChan, mlWarned, adding, src, dcount>>

\* sync.WaitGroup: Wait returns when the counter is zero
wgWaitSkipped(n) == TRUE
wgWaitReturns(n) == n = 0

\* ml.wg.Wait()
mlCloseWait ==
    /\ UNCHANGED <<negVars, regVars, srvVars, cliVars, addVars>>
    /\ mlClose.pc = "wait"
    /\ wgWaitReturns(mlWg)
    /\ mlClose' = [mlClose EXCEPT !.pc = "listeners", !.i = 1]
    /\ UNCHANGED <<mlListeners, mlClosed, mlWg, mlErrChan, mlWarned, adding, pump, src,
                   acc, dcount>>

\* for _, l := range ml.listeners { err = multierr.Append(err, l.Close()) }
mlCloseListeners ==
    /\ UNCHANGED <<negVars, regVars, srvVars, cliVars, addVars>>
    /\ mlClose.pc = "listeners"
    /\ IF mlClose.i > Len(mlListeners)
       THEN /\ mlClose' = [mlClose EXCEPT !.pc = "done"]
            /\ UNCHANGED src
       ELSE \E cerr \in BOOLEAN :
            /\ mlClose' = [mlClose EXCEPT
                             !.i = @ + 1,
                             !.called = Append(@, [l |-> mlListeners[mlClose.i],
                                                   failed |-> cerr]),
                             !.err = multierrAppend(@, IF cerr THEN <<mlListeners[mlClose.i]>>
                                                       ELSE NoErr)]
            /\ src' = [src EXCEPT ![mlListeners[mlClose.i]].err =
                                     IF @ = "none" THEN "closed" ELSE @]
    /\ UNCHANGED <<mlListeners, mlClosed, mlWg, mlErrChan, mlWarned, adding, pump, acc,
                   dcount>>

NextML ==
    \/ \E s \in Sources : srcProduce(s)
    \/ \E s \in Sources : srcFail(s)
    \/ \E s \in Sources : addAppend(s)
    \/ \E s \in Sources : addSpawn(s)
    \/ \E s \in Sources : pumpAccept(s)
    \/ \E s \in Sources : pumpSelect(s)
    \/ \E s \in Sources : pumpExit(s)
    \/ accCall
    \/ accSelect
    \/ mlCloseSignal
    \/ mlCloseWait
    \/ mlCloseListeners

\* where each produced session is: still at its source, held by the pump,
\* or returned by Accept
AtSource(x) == \E i \in 1..Len(src[x[1]].pending) : src[x[1]].pending[i] = x
Held(x) == pump[x[1]].hold = x
Produced(x) == x[2] <= src[x[1]].produced
NoSourceFailed == \A s \in Sources : src[s].err = "none"
AllProduced ==
    \A s \in Sources : adding[s] # "no" /\ src[s].produced = MaxSessions
AllDelivered == \A x \in Sessions : dcount[x] = 1

\* C7: no session is returned by Accept twice and none that no source
\* produced; while the aggregator is open and no source has failed every
\* produced session is at its source, held by its pump or returned (none is
\* lost); and once all NumSources sources are added and have produced their
\* MaxSessions sessions, Accept returns all NumSources * MaxSessions of them
\* unless the aggregator is closed or a source fails first.
C7_ExactlyOnce ==
    /\ [](\A x \in Sessions :
            /\ dcount[x] <= 1
            /\ dcount[x] = 1 => Produced(x)
            /\ (~mlClosed /\ NoSourceFailed /\ Produced(x)) =>
                  (IF dcount[x] = 1 THEN ~AtSource(x) /\ ~Held(x)
                   ELSE AtSource(x) # Held(x)))
    /\ (AllProduced ~> (AllDelivered \/ mlClosed \/ ~NoSourceFailed))

C7_Witness ==
    /\ AllDelivered
    /\ ~mlClosed
    /\ NoSourceFailed
    /\ Cardinality(Sessions) = NumSources * MaxSessions
    /\ NumSources >= 2

\* C8: a Close that waits while a pump is blocked in the Accept of a source
\* with no pending session and no error still returns.
C8_CloseReturns ==
    (/\ mlClose.pc = "wait"
     /\ \E s \in Sources :
          pump[s].pc = "accept" /\ src[s].pending = << >> /\ src[s].err = "none")
        ~> (mlClose.pc = "done")

\* C9: once closeChan is closed, every return of Accept is the closed error,
\* never a session, also when a pump holds a session it wants to hand over.
C9_ClosedAfterClose ==
    [][(mlClosed /\ acc.pc # "idle" /\ acc'.pc = "idle") => acc'.res = "closed"]_vars

C9_Witness ==
    /\ mlClosed
    /\ acc.pc = "idle" /\ acc.res = "closed"
    /\ \E s \in Sources : pump[s].pc = "select" /\ pump[s].hold # NoConn

\* C21: a source whose Accept returned an error, or whose Accept blocks with
\* nothing to return, does not stop or corrupt delivery from the others: a
\* session produced by any other added source is returned by Accept, once
\* and never twice, unless Close is called or its own source fails first.
Misbehaving(s) ==
    /\ adding[s] = "spawned"
    /\ \/ src[s].err # "none"
       \/ pump[s].pc = "accept" /\ src[s].pending = << >>
C21_OthersStillDelivered ==
    /\ [](\A x \in Sessions : dcount[x] <= 1 /\ (dcount[x] = 1 => Produced(x)))
    /\ \A x \in Sessions :
         (/\ Produced(x)
          /\ adding[x[1]] # "no"
          /\ \E s \in Sources \ {x[1]} : Misbehaving(s))
            ~> (dcount[x] = 1 \/ mlClose.pc # "idle" \/ src[x[1]].err # "none")

\* one source has failed and its pump is gone, and every session of another
\* source was returned once
C21_Witness ==
    /\ \E s \in Sources : src[s].err = "failed" /\ pump[s].pc = "done"
    /\ \E t \in Sources :
         /\ src[t].err = "none" /\ src[t].produced = MaxSessions
         /\ \A k \in 1..MaxSessions : dcount[Session(t, k)] = 1
    /\ mlClose.pc = "idle"

\* C22: the aggregator never closes a source that was handed to it with
\* AddListener, not even in its Close: closing a source stays with the
\* connection handler that created it.
ClosedByAggregator(s) ==
    /\ mlClose.pc \in {"listeners", "done"}
    /\ \E k \in 1..Len(mlListeners) : mlListeners[k] = s /\ k < mlClose.i
C22_AggregatorNeverCloses == \A s \in Sources : ~ClosedByAggregator(s)

\* C23: when the pump of a source has stopped because the source's Accept
\* returned an error, the source is no longer in the aggregator's list: the
\* list holds only sources whose pump still runs.
InList(s) == \E k \in 1..Len(mlListeners) : mlListeners[k] = s
PumpStoppedOnError(s) ==
    pump[s].pc = "done" /\ src[s].err = "failed" /\ mlClose.pc = "idle"
C23_FailedSourceRemoved ==
    \A s \in Sources : PumpStoppedOnError(s) => ~InList(s)

\* C24: when Close has returned it had closed closeChan first, every pump
\* had exited before the first source was closed, Close was called on every
\* added source exactly once, and the result is nil iff every one of these
\* closes succeeded and holds the error of every close that failed otherwise.
RECURSIVE CloseErrors(_)
CloseErrors(q) ==
    IF q = << >> THEN NoErr
    ELSE (IF Head(q).failed THEN <<Head(q).l>> ELSE NoErr) \o CloseErrors(Tail(q))
TimesClosed(s) == Cardinality({k \in 1..Len(mlClose.called) : mlClose.called[k].l = s})
C24_CloseInOrder ==
    /\ mlClose.pc # "idle" => mlClosed
    /\ mlClose.called # << >> =>
          /\ mlClose.pc \in {"listeners", "done"}
          /\ \A s \in Sources : pump[s].pc \in {"none", "done"}
          /\ mlWg = 0
    /\ \A s \in Sources : TimesClosed(s) <= 1
    /\ mlClose.pc = "done" =>
          /\ \A s \in Sources : TimesClosed(s) = (IF adding[s] # "no" THEN 1 ELSE 0)
          /\ mlClose.err = CloseErrors(mlClose.called)
          /\ mlClose.err = NoErr <=> \A k \in 1..Len(mlClose.called) : ~mlClose.called[k].failed
          /\ \A k \in 1..Len(mlClose.called) :
                mlClose.called[k].failed =>
                    \E j \in 1..Len(mlClose.err) : mlClose.err[j] = mlClose.called[k].l

\* Close has returned after closing all NumSources sources, every close failed
C24_Witness ==
    /\ mlClose.pc = "done"
    /\ Len(mlClose.called) = NumSources
    /\ Len(mlClose.err) = NumSources
    /\ \E x \in Sessions : dcount[x] = 1

\* C29: the first error that a source's Accept returns stops the pump of
\* that source for good: the pump exits, never takes a session from the
\* source again and hands nothing further to Accept.
C29_ErrorStopsPump ==
    /\ [](\A s \in Sources :
            pump[s].errs >= 1 => (pump[s].errs = 1 /\ pump[s].pc \in {"exit", "done"}))
    /\ [][\A s \in Sources :
            pump[s].errs >= 1 =>
                /\ pump'[s].pc \in {"exit", "done"}
                /\ pump'[s].hold = pump[s].hold
                /\ Len(src'[s].pending) >= Len(src[s].pending)
                /\ \A k \in 1..MaxSessions :
                     dcount'[Session(s, k)] = dcount[Session(s, k)]]_vars

\* a pump has exited on an error after handing over one session, while the
\* source still has a session that nobody will take
C29_Witness ==
    \E s \in Sources :
        /\ pump[s].pc = "done" /\ pump[s].errs = 1
        /\ dcount[Session(s, 1)] = 1
        /\ src[s].pending # << >>
        /\ acc.pc = "parked"
        /\ ~mlClosed

\* C32: an error of a source's Accept never comes out of the aggregator's
\* Accept: no pump posts to errChan, which stays empty; the only error
\* Accept returns is the closed error, and only once closeChan is closed;
\* until then every return of Accept is a session (or Accept keeps blocking).
C32_SourceErrorNotSurfaced ==
    /\ [](mlErrChan = << >> /\ acc.res \in {"none", "conn", "closed"})
    /\ [][(acc.pc # "idle" /\ acc'.pc = "idle") =>
            /\ acc'.res \in {"conn", "closed"}
            /\ acc'.res = "closed" => mlClosed'
            /\ ~mlClosed' => acc'.res = "conn"]_vars
    /\ [][\A s \in Sources :
            pump'[s].errs > pump[s].errs => (acc' = acc /\ mlErrChan' = << >>)]_vars

\* a source has failed with an error that is logged, its pump is gone, and
\* Accept, called after that, blocks on the open aggregator
C32_Witness ==
    \E s \in Sources :
        /\ pump[s].errs = 1 /\ pump[s].got = <<"plain">> /\ s \in mlWarned
        /\ pump[s].pc = "done"
        /\ acc.pc = "parked" /\ acc.res = "none"
        /\ ~mlClosed /\ mlErrChan = << >>

\* C33: every session a pump has accepted from its source is returned by
\* Accept or closed: a session that its pump gave up (the pump returned while
\* holding it, as it does when closeChan is closed) is closed in the end,
\* counting as closed also a session whose source was closed or has broken.
Dropped(x) ==
    /\ pump[x[1]].hold = x
    /\ pump[x[1]].pc \in {"exit", "done"}
    /\ dcount[x] = 0
SessionClosed(x) == src[x[1]].err # "none"
C33_HeldSessionClosed ==
    \A x \in Sessions : Dropped(x) ~> SessionClosed(x)

\* C34: Accept returns the sessions of one source in the order the source
\* produced them: a session is returned only after every earlier session of
\* its source was returned; a pump holds one session at a time, which is not
\* yet returned, and takes the next from its source (the oldest pending one)
\* only when it holds none, all earlier ones having been handed over.
C34_PerSourceOrder ==
    /\ [](\A s \in Sources : \A k \in 1..MaxSessions : \A j \in 1..(k - 1) :
            dcount[Session(s, k)] = 1 => dcount[Session(s, j)] = 1)
    /\ [](\A s \in Sources :
            pump[s].hold # NoConn =>
                /\ dcount[pump[s].hold] = 0
                /\ pump[s].hold[1] = s
                /\ pump[s].pc \in {"select", "parked", "exit", "done"})
    /\ [][\A s \in Sources :
            (pump'[s].hold # pump[s].hold /\ pump'[s].hold # NoConn) =>
                /\ pump[s].hold = NoConn
                /\ pump'[s].hold = Head(src[s].pending)
                /\ \A j \in 1..(pump'[s].hold[2] - 1) : dcount[Session(s, j)] = 1]_vars
    /\ [][\A s \in Sources : \A k \in 1..MaxSessions :
            dcount'[Session(s, k)] > dcount[Session(s, k)] =>
                /\ pump[s].hold = Session(s, k)
                /\ pump'[s].hold = NoConn]_vars

\* the sessions of one source were all returned, the first of another source
\* was returned as well and its second is held by its pump
C34_Witness ==
    \E s \in Sources : \E t \in Sources \ {s} :
        /\ \A k \in 1..MaxSessions : dcount[Session(s, k)] = 1
        /\ dcount[Session(t, 1)] = 1
        /\ pump[t].hold = Session(t, 2)
        /\ pump[s].pc = "accept" /\ pump[s].hold = NoConn

(***************************************************************************)
(* AddListener step by step (SpecAdd): the lock, the append as a read and *)
(* a write of ml.listeners, the unlock; addAppend above is these steps     *)
(* taken at once.  Several AddListener calls run against each other and    *)
(* against the pumps and Accept; Close is not called.                      *)
(***************************************************************************)
\* sync.Mutex: Lock returns when no one holds the mutex
mutexFreeAlways(l) == TRUE
mutexFree(l) == l = 0

mlRest == <<mlClosed, mlErrChan, mlWarned, pump, src, acc, dcount, mlClose>>

\* ml.listenersLock.Lock()
addLock(s) ==
    /\ UNCHANGED <<negVars, regVars, srvVars, cliVars>>
    /\ adding[s] = "no"
    /\ mutexFree(mlLock)
    /\ mlLock' = s
    /\ adding' = [adding EXCEPT ![s] = "locked"]
    /\ UNCHANGED <<mlListeners, mlWg, addCopy, mlRest>>

\* append(ml.listeners, l): the slice is read
addRead(s) ==
    /\ UNCHANGED <<negVars, regVars, srvVars, cliVars>>
    /\ adding[s] = "locked"
    /\ addCopy' = [addCopy EXCEPT ![s] = mlListeners]
    /\ adding' = [adding EXCEPT ![s] = "read"]
    /\ UNCHANGED <<mlListeners, mlWg, mlLock, mlRest>>

\* ml.listeners = append(...): the longer slice is stored
addWrite(s) ==
    /\ UNCHANGED <<negVars, regVars, srvVars, cliVars>>
    /\ adding[s] = "read"
    /\ mlListeners' = Append(addCopy[s], s)
    /\ adding' = [adding EXCEPT ![s] = "written"]
    /\ UNCHANGED <<mlWg, mlLock, addCopy, mlRest>>

\* ml.listenersLock.Unlock()
addUnlock(s) ==
    /\ UNCHANGED <<negVars, regVars, srvVars, cliVars>>
    /\ adding[s] = "written"
    /\ mlLock' = IF mlLock = s THEN 0 ELSE mlLock
    /\ adding' = [adding EXCEPT ![s] = "appended"]
    /\ UNCHANGED <<mlListeners, mlWg, addCopy, mlRest>>

NextAdd ==
    \/ \E s \in Sources : srcProduce(s)
    \/ \E s \in Sources : srcFail(s)
    \/ \E s \in Sources : addLock(s)
    \/ \E s \in Sources : addRead(s)
    \/ \E s \in Sources : addWrite(s)
    \/ \E s \in Sources : addUnlock(s)
    \/ \E s \in Sources : addSpawn(s)
    \/ \E s \in Sources : pumpAccept(s)
    \/ \E s \in Sources : pumpSelect(s)
    \/ \E s \in Sources : pumpExit(s)
    \/ accCall
    \/ accSelect

\* C25: for any interleaving of AddListener calls with each other and with
\* Accept (and no Close), every added source is in the aggregator's list
\* exactly once, one pump was started per added source, and Accept returns
\* no error and no session that no source produced.
Appended(s) == adding[s] \in {"written", "appended", "spawned"}
C25_AddListenerSafe ==
    /\ \A s \in Sources :
         /\ Count(mlListeners, s) = (IF Appended(s) THEN 1 ELSE 0)
         /\ pump[s].pc # "none" <=> adding[s] = "spawned"
    /\ Len(mlListeners) = Cardinality({s \in Sources : Appended(s)})
    /\ mlWg = Cardinality({s \in Sources : pump[s].pc \notin {"none", "done"}})
    /\ acc.res \in {"none", "conn"}
    /\ \A x \in Sessions : dcount[x] <= 1 /\ (dcount[x] = 1 => Produced(x))

\* all NumSources sources were added and Accept has returned a session of each
C25_Witness ==
    /\ \A s \in Sources : adding[s] = "spawned" /\ dcount[Session(s, 1)] = 1
    /\ Len(mlListeners) = NumSources
    /\ acc.res = "conn"

(***************************************************************************)
(* The server (server.go): the handler goroutine of each raw connection,  *)
(* and ClientFromContext, which RPC handlers call to find the callback    *)
(* proxy of their caller.                                                  *)
(***************************************************************************)
\* the texts a caller can put under "brpc-metadata-client-id": the four
\* forms uuid.Parse decodes, and texts it rejects
Plain(u) == UUIDString(u)
Urn(u) == UrnPrefix \o UUIDString(u)
Braced(u) == <<"{">> \o UUIDString(u) \o <<"}">>
RawHex(u) == SelectSeq(UUIDString(u), LAMBDA ch : ch # "-")
GoodTexts(u) == {Plain(u), Urn(u), Braced(u), RawHex(u)}
BadTexts ==
    { << >>,
      SubSeq(Plain(MkUUID(1)), 1, 35),
      [Plain(MkUUID(1)) EXCEPT ![1] = "g"],
      [Plain(MkUUID(1)) EXCEPT ![9] = "0"],
      Urn(MkUUID(1)) \o <<"0">> }
Texts ==
    BadTexts \cup UNION {GoodTexts(u) : u \in UUIDs} \cup {Plain(ZeroUUID)}

\* metadata.FromIncomingContext(ctx) and md.Get(metadataClientIDKey): whether
\* the call has metadata, and the values under the identity key
NoMD == [ok |-> FALSE, ids |-> << >>]
\* the metadata of a call that went through a brpc client's interceptor: the
\* identity's text form, alone or appended after a value the caller's
\* context already carried
OwnMDs == {[ok |-> TRUE, ids |-> <<Plain(u)>>] : u \in UUIDs}
ClientMDs ==
    OwnMDs
    \cup {[ok |-> TRUE, ids |-> <<Plain(p[1]), Plain(p[2])>>] :
            p \in {q \in UUIDs \X UUIDs : q[1] # q[2]}}
\* any metadata
MDs ==
    {NoMD, [ok |-> TRUE, ids |-> << >>]}
    \cup {[ok |-> TRUE, ids |-> <<t>>] : t \in Texts}
    \cup ClientMDs

\* if len(ids) == 0
NoIDsNever(ids) == FALSE
NoIDs(ids) == Len(ids) = 0
\* ids[0]
LastID(ids) == ids[Len(ids)]
FirstID(ids) == ids[1]

Status(client, code) == [client |-> client, code |-> code]

\* ClientFromContext: the proxy and the status code it returns. Indexing an
\* empty slice panics.
ClientFromContext(md, m) ==
    IF ~md.ok THEN Status(ZeroClient, "InvalidArgument")
    ELSE IF NoIDs(md.ids) THEN Status(ZeroClient, "InvalidArgument")
    ELSE IF Len(md.ids) = 0 THEN Status(ZeroClient, "panic")
    ELSE LET p == UUIDParse(FirstID(md.ids))
             g == clientMapGet(m, p.id)
         IN  IF ~p.ok THEN Status(ZeroClient, "InvalidArgument")
             ELSE IF ~g.ok THEN Status(g.client, "NotFound")
             ELSE Status(g.client, "OK")

\* a handler that has not been started
IdleHandler ==
    [pc |-> "idle", id |-> ZeroUUID, err |-> NoErr, defers |-> << >>,
     removed |-> FALSE, closed |-> << >>, made |-> << >>, ran |-> << >>,
     peerErr |-> FALSE]

NoCall ==
    [md |-> NoMD, client |-> ZeroClient, code |-> "none",
     regd |-> {}, gone |-> {}, keys |-> {}]

\* the client's state after construction (client.go, DialContext)
NoOut == [kind |-> "none", pre |-> << >>, ids |-> << >>]

InitCli ==
    /\ cc = [pc |-> "dial", uuid |-> ZeroUUID, conn |-> "none", err |-> NoErr]
    /\ server = "nil"
    /\ svc = "idle"
    /\ watch = "none"
    /\ shutdown = FALSE
    /\ closer = "idle"
    /\ out = NoOut


InitSrv ==
    /\ h = [c \in Conns |-> IdleHandler]
    /\ connDone = [c \in Conns |-> FALSE]
    /\ added = << >>
    /\ call = NoCall
    /\ ctxDone = FALSE
    /\ loop = "accept"

\* d is on the defer stack of handler c
Deferred(c, d) == \E i \in 1..Len(h[c].defers) : h[c].defers[i] = d
\* handler c has registered its identity and not yet removed it
Registered(c) == Deferred(c, "remove")

\* return err: the deferred calls run next
FailNoDefers(hc, e) == [hc EXCEPT !.pc = "return", !.err = e, !.defers = << >>]
Fail(hc, e) == [hc EXCEPT !.pc = "return", !.err = e]

\* a step that takes ctx and opens a sub-stream on the connection can succeed
\* only while the connection is alive and ctx is not cancelled
Outcomes(c) == IF connDone[c] \/ ctxDone THEN {FALSE} ELSE BOOLEAN

\* Serve's accept loop: conn, err := listener.Accept(ctx); go
\* s.handleConnection(ctx, conn); the handler defers conn.CloseWithError
hStart(c) ==
    /\ UNCHANGED <<negVars, regVars, mlVars, loopVars, cliVars>>
    /\ h[c].pc = "idle"
    /\ loop = "accept" /\ ~ctxDone
    /\ h' = [h EXCEPT ![c] = [@ EXCEPT !.pc = "send", !.defers = <<"closeConn">>]]
    /\ UNCHANGED <<connDone, added, call>>

\* id, err := sendClientID(ctx, conn): a new identity, written on a one-shot
\* sub-stream
hSendClientID(c) ==
    /\ UNCHANGED <<negVars, regVars, mlVars, loopVars, cliVars>>
    /\ h[c].pc = "send"
    /\ \E id \in UUIDs, ok \in Outcomes(c), werr \in BOOLEAN,
          n \in {IdLen - 1, IdLen}, cerr \in BOOLEAN :
         LET e == IF ~ok THEN <<"dial">>
                  ELSE multierrAppend(SendCheck(werr, n),
                                      IF cerr THEN <<"close">> ELSE NoErr)
         IN  h' = [h EXCEPT ![c] =
                     IF e # NoErr
                     THEN Fail([@ EXCEPT !.id = id], <<"sending client id">>)
                     ELSE [@ EXCEPT !.pc = "open", !.id = id,
                                    !.made = Append(@, "id")]]
    /\ UNCHANGED <<connDone, added, call>>

\* grpcConn, err := conn.OpenStreamSync(ctx); defer grpcConn.Close
hOpenStream(c) ==
    /\ UNCHANGED <<negVars, regVars, mlVars, loopVars, cliVars>>
    /\ h[c].pc = "open"
    /\ \E ok \in Outcomes(c) :
         h' = [h EXCEPT ![c] =
                 IF ok
                 THEN [@ EXCEPT !.pc = "dial", !.defers = Append(@, "closeStream"),
                                !.made = Append(@, "stream")]
                 ELSE Fail(@, <<"opening server->client grpc connection">>)]
    /\ UNCHANGED <<connDone, added, call>>

\* the step that follows dial in the handler: s.clients.add, and
\* AddListener only after it
AfterDialSkipsAdd == "listen"
AfterDial == "add"

\* grpcClient, err := dial(grpcConn, ...); defer grpcClient.Close
hDial(c) ==
    /\ UNCHANGED <<negVars, regVars, mlVars, loopVars, cliVars>>
    /\ h[c].pc = "dial"
    /\ \E ok \in BOOLEAN :
         h' = [h EXCEPT ![c] =
                 IF ok
                 THEN [@ EXCEPT !.pc = AfterDial, !.defers = Append(@, "closeClient"),
                                !.made = Append(@, "client")]
                 ELSE Fail(@, <<"dialing client's grpc server">>)]
    /\ UNCHANGED <<connDone, added, call>>

\* s.clients.add returned an error: the handler returns it, wrapped, before
\* it defers s.clients.remove
AddFailedRemoves(hc, e) == Fail([hc EXCEPT !.defers = @ \o <<"remove">>], e)
AddFailed(hc, e) == Fail(hc, e)

\* what the handler defers once s.clients.add has succeeded
DefersAfterAddNoRemove == <<"logInfo">>
DefersAfterAdd == <<"remove", "logInfo">>

\* err = s.clients.add(id, s.clientServiceBuilder(grpcClient)); defer
\* s.clients.remove(id); defer s.Logger.Info(...)
hAdd(c) ==
    /\ UNCHANGED <<negVars, regRest, mlVars, loopVars, cliVars>>
    /\ h[c].pc = "add"
    /\ LET r == clientMapAdd(clients, h[c].id, Proxy(c))
       IN  /\ clients' = r.m
           /\ h' = [h EXCEPT ![c] =
                      IF r.err # NoErr
                      THEN AddFailed(@, <<"registering client">> \o r.err)
                      ELSE [@ EXCEPT !.pc = "listen",
                                     !.defers = @ \o DefersAfterAdd,
                                     !.made = Append(@, "entry")]]
    /\ UNCHANGED <<connDone, added, call>>

\* s.listener.AddListener(&quicListener{conn: conn})
hAddListener(c) ==
    /\ UNCHANGED <<negVars, regVars, mlVars, loopVars, cliVars>>
    /\ h[c].pc = "listen"
    /\ added' = Append(added, c)
    /\ h' = [h EXCEPT ![c] = [@ EXCEPT !.pc = "wait"]]
    /\ UNCHANGED <<connDone, call>>

\* <-conn.Context().Done(); return nil
hWait(c) ==
    /\ UNCHANGED <<negVars, regVars, mlVars, loopVars, cliVars>>
    /\ h[c].pc = "wait"
    /\ connDone[c]
    /\ h' = [h EXCEPT ![c] = Fail(@, NoErr)]
    /\ UNCHANGED <<connDone, added, call>>

\* which deferred call runs next: the one deferred last
DeferIndexFirst(d) == 1
DeferIndex(d) == Len(d)

\* the close error a deferred Close may add
CloseErr(d, failed) == IF failed THEN <<d>> ELSE NoErr

\* the handler returns: its deferred calls run last-in first-out, one per
\* step: s.Logger.Info, s.clients.remove(id), grpcClient.Close,
\* grpcConn.Close, conn.CloseWithError
hDefer(c) ==
    /\ UNCHANGED <<negVars, regRest, mlVars, loopVars, cliVars>>
    /\ h[c].pc = "return"
    /\ h[c].defers # << >>
    /\ LET k == DeferIndex(h[c].defers)
           d == h[c].defers[k]
           rest == SubSeq(h[c].defers, 1, k - 1)
                     \o SubSeq(h[c].defers, k + 1, Len(h[c].defers))
       IN  /\ clients' = IF d = "remove" THEN clientMapRemove(clients, h[c].id)
                         ELSE clients
           /\ connDone' = IF d = "closeConn" THEN [connDone EXCEPT ![c] = TRUE]
                          ELSE connDone
           /\ \E failed \in (IF d \in {"remove", "logInfo"} THEN {FALSE} ELSE BOOLEAN) :
                h' = [h EXCEPT ![c] =
                        [@ EXCEPT !.defers = rest,
                                  !.removed = @ \/ d = "remove",
                                  !.closed = IF d \in {"remove", "logInfo"} THEN @
                                             ELSE Append(@, d),
                                  !.ran = Append(@, d),
                                  !.err = multierrAppend(@, CloseErr(d, failed))]]
    /\ UNCHANGED <<added, call>>

\* handleConnection: the handler has returned; its error is logged and dropped
hReturn(c) ==
    /\ UNCHANGED <<negVars, regVars, mlVars, loopVars, cliVars>>
    /\ h[c].pc = "return"
    /\ h[c].defers = << >>
    /\ h' = [h EXCEPT ![c] = [@ EXCEPT !.pc = "done", !.err = NoErr]]
    /\ UNCHANGED <<connDone, added, call>>

\* the peer or the network ends connection c: its Done channel is closed
disconnect(c) ==
    /\ UNCHANGED <<negVars, regVars, mlVars, loopVars, cliVars>>
    /\ h[c].pc # "idle"
    /\ ~connDone[c]
    /\ connDone' = [connDone EXCEPT ![c] = TRUE]
    /\ UNCHANGED <<h, added, call>>

\* s.ClientFromContext(ctx) on metadata md: the call's record keeps the
\* result, and which handlers were registered, which had removed their
\* identity and which identities the registry held at the call
DoCall(md) ==
    LET r == ClientFromContext(md, clients)
    IN  call' = [md |-> md, client |-> r.client, code |-> r.code,
                 regd |-> {c \in Conns : Registered(c)},
                 gone |-> {c \in Conns : h[c].removed},
                 keys |-> DOMAIN clients]

\* an RPC handler calls s.ClientFromContext(ctx) with the metadata of a call
\* that a brpc client issued
rpcCallFrom(M) ==
    /\ UNCHANGED <<negVars, regVars, mlVars, loopVars, cliVars>>
    /\ \E md \in M : DoCall(md)
    /\ UNCHANGED <<h, connDone, added>>

rpcCall == rpcCallFrom(ClientMDs)

\* the same call, issued by a brpc client from a context that carried no
\* identity of its own: the interceptor's value is the only one
rpcCallOwn == rpcCallFrom(OwnMDs)

\* ClientFromContext on any metadata, over any registry
cfcCall ==
    /\ UNCHANGED <<negVars, regVars, mlVars, loopVars, cliVars>>
    /\ \E md \in MDs : DoCall(md)
    /\ UNCHANGED <<h, connDone, added>>

NextCFC == cfcCall

\* the registries the handlers can build: each connection registers its
\* proxy under one identity
Registries ==
    {m \in UNION {[D -> Proxies] : D \in SUBSET UUIDs} :
        \A a, b \in DOMAIN m : a # b => m[a] # m[b]}

InitCFC ==
    /\ InitNeg
    /\ InitML
    /\ InitSrv
    /\ InitCli
    /\ clients \in Registries
    /\ clientsLock = [writer |-> 0, readers |-> {}]
    /\ rt = [t \in Callers |-> IdleCaller]
    /\ succ = [id \in UUIDs |-> 0]
    /\ firstReg = EmptyMap
    /\ addDone = EmptyMap
    /\ rmDone = {}

Next ==
    \/ \E c \in Conns :
        \/ hStart(c)
        \/ hSendClientID(c)
        \/ hOpenStream(c)
        \/ hDial(c)
        \/ hAdd(c)
        \/ hAddListener(c)
        \/ hWait(c)
        \/ hDefer(c)
        \/ hReturn(c)
        \/ disconnect(c)
    \/ rpcCall

\* the handlers, with calls that carry one identity
NextOwn ==
    \/ \E c \in Conns :
        \/ hStart(c)
        \/ hSendClientID(c)
        \/ hOpenStream(c)
        \/ hDial(c)
        \/ hAdd(c)
        \/ hAddListener(c)
        \/ hWait(c)
        \/ hDefer(c)
        \/ hReturn(c)
        \/ disconnect(c)
    \/ rpcCallOwn

\* the last call carried metadata whose first identity value is text t
CallFor(t) ==
    /\ call.code # "none"
    /\ call.md.ok /\ call.md.ids # << >> /\ call.md.ids[1] = t

(* C2: a ClientFromContext call whose metadata carries the text form of   *)
(* U, made while the connection that negotiated U is registered, returns  *)
(* the proxy built over that very connection, with no error, however many *)
(* other connections are registered.                                       *)
C2_OwnProxy ==
    \A c \in Conns :
        (CallFor(UUIDString(h[c].id)) /\ c \in call.regd)
            => (call.code = "OK" /\ call.client = Proxy(c))

C2_Witness ==
    /\ call.regd = Conns /\ NumConns >= 2
    /\ \E c \in Conns :
         /\ CallFor(UUIDString(h[c].id))
         /\ Len(call.md.ids) = 2
         /\ call.client = Proxy(c)

(* C3: ClientFromContext never panics; without metadata, without a value  *)
(* under the identity key or with a first value that is no identity it    *)
(* returns InvalidArgument; with an identity the registry does not hold   *)
(* it returns NotFound; it returns the zero proxy with every error.       *)
C3_Classified ==
    call.code # "none" =>
        /\ call.code \in {"OK", "InvalidArgument", "NotFound"}
        /\ (~call.md.ok \/ call.md.ids = << >>) => call.code = "InvalidArgument"
        /\ \A t \in BadTexts : CallFor(t) => call.code = "InvalidArgument"
        /\ \A u \in UUIDs \cup {ZeroUUID} : \A t \in GoodTexts(u) :
             CallFor(t) => IF u \in call.keys THEN call.code = "OK"
                           ELSE call.code = "NotFound"
        /\ call.code # "OK" => call.client = ZeroClient

C3_Witness ==
    /\ call.keys # {}
    /\ call.code = "NotFound"
    /\ CallFor(Urn(MkUUID(1)))
    /\ call.client = ZeroClient

\* the registry maps the identity of handler c to the proxy of c
Holds(c) == clientMapGet(clients, h[c].id) = [client |-> Proxy(c), ok |-> TRUE]

(* C10: once the connection of a registered client is disconnected, its   *)
(* handler eventually removes its identity U from the registry; and a     *)
(* ClientFromContext call for U made after that removal returns NotFound  *)
(* with the zero proxy (as long as no later connection was given the same *)
(* identity and registered it).                                            *)
C10_RemovedAfterDisconnect ==
    /\ \A c \in Conns :
         (connDone[c] /\ Registered(c) /\ Holds(c)) ~> (h[c].removed /\ ~Holds(c))
    /\ [](\A c \in Conns :
            (/\ CallFor(UUIDString(h[c].id))
             /\ c \in call.gone
             /\ \A d \in call.regd : h[d].id # h[c].id)
                => (call.code = "NotFound" /\ call.client = ZeroClient))

C10_Witness ==
    \E c \in Conns :
        /\ CallFor(UUIDString(h[c].id))
        /\ c \in call.gone
        /\ call.code = "NotFound"
        /\ call.keys # {}
        /\ h[c].pc = "return" /\ Deferred(c, "closeConn") /\ connDone[c]

(* C11: the teardown of a connection runs exactly once on every exit path *)
(* of the handler: no deferred call runs twice, and when the handler has  *)
(* returned the connection was closed once, the callback sub-stream and   *)
(* the proxy were closed once each iff they had been created, and the     *)
(* identity was removed once iff this handler had registered it.          *)
C11_TeardownOnce ==
    \A c \in Conns :
        /\ \A d \in {"closeConn", "closeStream", "closeClient", "remove", "logInfo"} :
             Count(h[c].ran, d) <= 1
        /\ h[c].pc = "done" =>
             /\ Count(h[c].ran, "closeConn") = 1
             /\ Count(h[c].ran, "closeStream") = Count(h[c].made, "stream")
             /\ Count(h[c].ran, "closeClient") = Count(h[c].made, "client")
             /\ Count(h[c].ran, "remove") = Count(h[c].made, "entry")
             /\ h[c].removed <=> Count(h[c].made, "entry") = 1

C11_Witness ==
    /\ \A c \in Conns : h[c].pc = "done"
    /\ \E c \in Conns : h[c].made = <<"id", "stream", "client", "entry">>
    /\ \E c \in Conns : h[c].made = <<"id", "stream", "client">> /\ h[c].ran # << >>

(***************************************************************************)
(* Shutdown: the context passed to Serve is cancelled.                     *)
(***************************************************************************)
\* the caller of Serve cancels ctx
ctxCancel ==
    /\ UNCHANGED <<negVars, regVars, mlVars, cliVars>>
    /\ ~ctxDone
    /\ ctxDone' = TRUE
    /\ UNCHANGED <<h, connDone, added, call, loop>>

\* what the accept goroutine does with an error of listener.Accept(ctx):
\* s.Logger.Error(...); continue
AfterAcceptErr == "accept"

\* conn, err := listener.Accept(ctx) returns ctx's error once ctx is cancelled
acceptErr ==
    /\ UNCHANGED <<negVars, regVars, mlVars, cliVars>>
    /\ loop = "accept"
    /\ ctxDone
    /\ loop' = "failed"
    /\ UNCHANGED <<h, connDone, added, call, ctxDone>>

\* if err != nil { s.Logger.Error("accepting connection", ...); continue }
acceptContinue ==
    /\ UNCHANGED <<negVars, regVars, mlVars, cliVars>>
    /\ loop = "failed"
    /\ loop' = AfterAcceptErr
    /\ UNCHANGED <<h, connDone, added, call, ctxDone>>

\* the server with its shutdown signal, without the calls of RPC handlers
\* the client's side of the negotiation fails: getClientID returns an error
\* in connect while the server writes the identity or when its bytes arrive
\* (a failed or short read); connect's deferred CloseWithError then ends
\* the connection, which the server sees later, as disconnect(c)
peerNegFail(c) ==
    /\ UNCHANGED <<negVars, regVars, mlVars, loopVars, cliVars>>
    /\ h[c].pc \in {"send", "open"}
    /\ ~connDone[c]
    /\ ~h[c].peerErr
    /\ h' = [h EXCEPT ![c] = [@ EXCEPT !.peerErr = TRUE]]
    /\ UNCHANGED <<connDone, added, call>>

NextServe ==
    \/ \E c \in Conns :
        \/ hStart(c)
        \/ hSendClientID(c)
        \/ hOpenStream(c)
        \/ hDial(c)
        \/ hAdd(c)
        \/ hAddListener(c)
        \/ hWait(c)
        \/ hDefer(c)
        \/ hReturn(c)
        \/ disconnect(c)
        \/ peerNegFail(c)
    \/ ctxCancel
    \/ acceptErr
    \/ acceptContinue

(* C12: after the shutdown signal, Serve's accept loop terminates: it     *)
(* stops for good instead of looping on the errors of Accept.             *)
C12_AcceptLoopStops == ctxDone ~> [](loop = "stopped")

(* C13: the shutdown signal reaches every live handler: a handler that is *)
(* waiting for its connection's done signal when the context is cancelled *)
(* eventually wakes, closes its connection and removes its identity.      *)
C13_ShutdownWakesHandlers ==
    \A c \in Conns :
        (ctxDone /\ h[c].pc = "wait")
            ~> (h[c].removed /\ Count(h[c].ran, "closeConn") = 1)

(***************************************************************************)
(* The client (client.go): connect, the interceptors that add the         *)
(* identity to every call, ServeClientService and Close.                   *)
(***************************************************************************)
others == <<negVars, regVars, mlVars, srvVars>>

\* connect returns err after the connection was dialled: the deferred
\* function closes the connection
ConnectFail(c, e) == [c EXCEPT !.pc = "deferred", !.err = e]

\* c.conn, err = c.Dialer(ctx, target); if err != nil { return err }
ccDial ==
    /\ UNCHANGED others
    /\ cc.pc = "dial"
    /\ \E ok \in BOOLEAN :
         cc' = IF ok THEN [cc EXCEPT !.pc = "getid", !.conn = "open"]
               ELSE [cc EXCEPT !.pc = "failed", !.err = <<"dial">>]
    /\ UNCHANGED <<server, svc, watch, shutdown, closer, out>>

\* c.uuid, err = getClientID(ctx, c.conn)
ccGetID ==
    /\ UNCHANGED others
    /\ cc.pc = "getid"
    /\ \E id \in UUIDs, ok \in (IF cc.conn = "open" THEN BOOLEAN ELSE {FALSE}) :
         cc' = IF ok THEN [cc EXCEPT !.pc = "open", !.uuid = id]
               ELSE ConnectFail(cc, <<"getting client id from server">>)
    /\ UNCHANGED <<server, svc, watch, shutdown, closer, out>>

\* conn, err := c.conn.OpenStreamSync(ctx)
ccOpenStream ==
    /\ UNCHANGED others
    /\ cc.pc = "open"
    /\ \E ok \in (IF cc.conn = "open" THEN BOOLEAN ELSE {FALSE}) :
         cc' = IF ok THEN [cc EXCEPT !.pc = "grpcdial"]
               ELSE ConnectFail(cc, <<"opening multiplexed client->server gprc connection">>)
    /\ UNCHANGED <<server, svc, watch, shutdown, closer, out>>

\* c.ClientConn, err = dial(conn, c.WithUnaryConnectionIdentifier(), ...)
ccGrpcDial ==
    /\ UNCHANGED others
    /\ cc.pc = "grpcdial"
    /\ \E ok \in BOOLEAN :
         cc' = IF ok THEN [cc EXCEPT !.pc = "connected"]
               ELSE ConnectFail(cc, <<"dialing client->server grpc connection">>)
    /\ UNCHANGED <<server, svc, watch, shutdown, closer, out>>

\* the deferred function of connect: if err != nil, c.conn.CloseWithError
ccDeferredClose ==
    /\ UNCHANGED others
    /\ cc.pc = "deferred"
    /\ \E failed \in BOOLEAN :
         cc' = [cc EXCEPT !.pc = "failed", !.conn = "closed",
                          !.err = multierrAppend(@, CloseErr("closeConn", failed))]
    /\ UNCHANGED <<server, svc, watch, shutdown, closer, out>>

\* the server or the network ends the connection
connLost ==
    /\ UNCHANGED others
    /\ cc.conn = "open"
    /\ cc' = [cc EXCEPT !.conn = "closed"]
    /\ UNCHANGED <<server, svc, watch, shutdown, closer, out>>

\* the values a caller's outgoing context can already carry under the key
PreIDs == {<< >>} \cup {<<Plain(u)>> : u \in UUIDs}

\* the interceptors: metadata.AppendToOutgoingContext(ctx,
\* metadataClientIDKey, c.uuid.String())
InterceptUnaryOnly(kind, pre, u) ==
    IF kind = "unary" THEN Append(pre, UUIDString(u)) ELSE pre
Intercept(kind, pre, u) == Append(pre, UUIDString(u))

\* a unary or streaming call through the client handle
ccCall ==
    /\ UNCHANGED others
    /\ cc.pc = "connected"
    /\ \E kind \in {"unary", "stream"}, pre \in PreIDs :
         out' = [kind |-> kind, pre |-> pre, ids |-> Intercept(kind, pre, cc.uuid)]
    /\ UNCHANGED <<cc, server, svc, watch, shutdown, closer>>

\* c.server.GracefulStop(): the comment in Close says it also closes c.conn
GracefulStop(c) == [c EXCEPT !.conn = "closed"]

\* ServeClientService: c.server = grpc.NewServer(); register(c.server)
svcNew ==
    /\ UNCHANGED others
    /\ svc = "idle"
    /\ cc.pc = "connected"
    /\ server' = "created"
    /\ svc' = "spawn"
    /\ UNCHANGED <<cc, watch, shutdown, closer, out>>

\* go func() { <-shutdown; c.server.GracefulStop() }()
svcSpawn ==
    /\ UNCHANGED others
    /\ svc = "spawn"
    /\ watch' = "waiting"
    /\ svc' = "serve"
    /\ UNCHANGED <<cc, server, shutdown, closer, out>>

\* return c.serve(): c.server.Serve(&quicListener{conn: c.conn}) starts
\* serving, or returns at once when the server was stopped already or the
\* connection is closed
svcServe ==
    /\ UNCHANGED others
    /\ svc = "serve"
    /\ IF server = "stopped" \/ cc.conn # "open"
       THEN svc' = "returned" /\ UNCHANGED server
       ELSE svc' = "serving" /\ server' = "serving"
    /\ UNCHANGED <<cc, watch, shutdown, closer, out>>

\* Serve returns: the server was stopped or the connection ended
svcServeReturn ==
    /\ UNCHANGED others
    /\ svc = "serving"
    /\ server = "stopped" \/ cc.conn # "open"
    /\ svc' = "returned"
    /\ UNCHANGED <<cc, server, watch, shutdown, closer, out>>

\* the caller of ServeClientService fires the shutdown signal
shutdownFire ==
    /\ UNCHANGED others
    /\ ~shutdown
    /\ svc # "idle"
    /\ shutdown' = TRUE
    /\ UNCHANGED <<cc, server, svc, watch, closer, out>>

\* the watcher: <-shutdown; c.server.GracefulStop()
watchStop ==
    /\ UNCHANGED others
    /\ watch = "waiting"
    /\ shutdown
    /\ server' = "stopped"
    /\ cc' = GracefulStop(cc)
    /\ watch' = "done"
    /\ UNCHANGED <<svc, shutdown, closer, out>>

\* Close: if c.server != nil
closeCall ==
    /\ UNCHANGED others
    /\ closer = "idle"
    /\ cc.pc = "connected"
    /\ closer' = IF server # "nil" THEN "stop" ELSE "return"
    /\ UNCHANGED <<cc, server, svc, watch, shutdown, out>>

\* Close: c.server.GracefulStop()
closeStop ==
    /\ UNCHANGED others
    /\ closer = "stop"
    /\ server' = "stopped"
    /\ cc' = GracefulStop(cc)
    /\ closer' = "return"
    /\ UNCHANGED <<svc, watch, shutdown, out>>

\* Close: return nil
closeReturn ==
    /\ UNCHANGED others
    /\ closer = "return"
    /\ closer' = "returned"
    /\ UNCHANGED <<cc, server, svc, watch, shutdown, out>>

NextClient ==
    \/ ccDial
    \/ ccGetID
    \/ ccOpenStream
    \/ ccGrpcDial
    \/ ccDeferredClose
    \/ connLost
    \/ ccCall
    \/ svcNew
    \/ svcSpawn
    \/ svcServe
    \/ svcServeReturn
    \/ shutdownFire
    \/ watchStop
    \/ closeCall
    \/ closeStop
    \/ closeReturn

(* C14: when ClientConn.Close has returned, the underlying transport      *)
(* connection is closed, whether the embedded server was started or not.  *)
C14_CloseReleasesTransport == closer = "returned" => cc.conn = "closed"

(* C38: whatever the interleaving of ClientConn.Close with a concurrent   *)
(* ServeClientService on the same connection, once Close has returned the *)
(* embedded server is not serving: it is stopped, or it never starts.     *)
C38_NotServingAfterClose == closer = "returned" => server # "serving"

(* C28: the watcher goroutine that ServeClientService starts terminates   *)
(* in every execution, also when the serve loop returns and the shutdown  *)
(* signal is never fired.                                                 *)
C28_WatcherTerminates == (watch = "waiting") ~> (watch = "done")

(* C15: after a successful connect every unary and every streaming call   *)
(* made through the client handle carries, under the client-id metadata   *)
(* key, the text form of the identity received at negotiation, and that   *)
(* identity never changes once negotiation has assigned it.               *)
Carries(ids, u) ==
    \E i \in 1..Len(ids) : ids[i] = UUIDString(u) /\ UUIDParse(ids[i]) = [ok |-> TRUE, id |-> u]
C15_CallsCarryIdentity ==
    /\ [](out.kind # "none" => cc.pc = "connected" /\ Carries(out.ids, cc.uuid))
    /\ [][cc.pc # "getid" => cc'.uuid = cc.uuid]_vars
C15_Witness ==
    /\ out.kind = "stream"
    /\ Len(out.ids) = 2
    /\ out.ids[1] # out.ids[2]
    /\ cc.conn = "closed"

(* C37: the identity the server resolves for a call, the first value      *)
(* under the client-id key, is the identity negotiated on the connection  *)
(* that issued the call, whatever the caller's outgoing context already   *)
(* carried under that key.                                                 *)
C37_ResolvesOwnIdentity ==
    out.kind # "none" =>
        UUIDParse(FirstID(out.ids)) = [ok |-> TRUE, id |-> cc.uuid]

(* C16: when negotiation fails on either side (the server's identity      *)
(* write, or the client's identity read), no registry entry and no        *)
(* aggregator source is created for that connection.                      *)
SendFailed(c) ==
    h[c].pc = "return" /\ h[c].err # NoErr /\ Head(h[c].err) = "sending client id"
C16_FailedNegotiationLeavesNothing ==
    \A c \in Conns :
        (SendFailed(c) \/ h[c].peerErr) =>
            /\ Count(h[c].made, "entry") = 0
            /\ Count(added, c) = 0

(* C17: a proxy that a caller obtained from ClientFromContext is not      *)
(* closed while the caller holds it, even when the connection's teardown  *)
(* removes the identity from the registry afterwards.                     *)
ProxyClosed(c) == Count(h[c].ran, "closeClient") >= 1
C17_FetchedProxyStaysOpen ==
    \A c \in Conns :
        (call.code = "OK" /\ call.client = Proxy(c)) => ~ProxyClosed(c)

(* C18: within one connection the server's steps are strictly ordered:    *)
(* the identity is negotiated before it is registered, and registered     *)
(* before the session is handed to the aggregator; a session the          *)
(* aggregator serves belongs to a client whose registry entry exists      *)
(* until that connection's teardown removes it.                           *)
HandlerOrder == <<"id", "stream", "client", "entry">>
IsPrefix(p, q) == Len(p) <= Len(q) /\ p = SubSeq(q, 1, Len(p))
C18_NegotiateRegisterServe ==
    \A c \in Conns :
        /\ IsPrefix(h[c].made, HandlerOrder)
        /\ Count(h[c].made, "entry") = 1 => h[c].id \in UUIDs
        /\ Count(added, c) <= 1
        /\ Count(added, c) = 1 =>
             /\ h[c].made = HandlerOrder
             /\ ~h[c].removed => /\ h[c].id \in DOMAIN clients
                                 /\ clients[h[c].id] = Proxy(c)
C18_Witness ==
    /\ \A c \in Conns : Count(added, c) = 1 /\ ~h[c].removed
    /\ \E c \in Conns : h[c].pc = "wait" /\ connDone[c]

(* C27: the proxy of a registry entry is closed when the entry is         *)
(* removed: the teardown of a connection that registered removes its      *)
(* identity and then closes its proxy and its sub-stream, no entry of the *)
(* registry ever holds a closed proxy, and when every connection's        *)
(* handler has ended the registry is empty and no proxy is left open.     *)
StreamClosed(c) == Count(h[c].ran, "closeStream") >= 1
C27_ProxyClosedWithEntry ==
    /\ \A id \in DOMAIN clients : ~ProxyClosed(clients[id].conn)
    /\ \A c \in Conns :
         /\ (ProxyClosed(c) /\ Count(h[c].made, "entry") = 1) => h[c].removed
         /\ (StreamClosed(c) /\ Count(h[c].made, "client") = 1) => ProxyClosed(c)
         /\ h[c].pc = "done" =>
              /\ Count(h[c].made, "client") = 1 => ProxyClosed(c)
              /\ Count(h[c].made, "stream") = 1 => StreamClosed(c)
              /\ Count(h[c].made, "entry") = 1 => h[c].removed
    /\ (\A c \in Conns : h[c].pc = "done") => clients = EmptyMap

\* every connection registered, and every handler has ended
C27_Witness ==
    \A c \in Conns :
        /\ h[c].pc = "done"
        /\ h[c].made = HandlerOrder
        /\ h[c].removed /\ ProxyClosed(c) /\ StreamClosed(c)

(* C35: the registry never holds a proxy its handler has closed: every    *)
(* lookup that succeeds, at the moment it is made, returns a proxy of a    *)
(* connection on which the server has called neither the proxy's Close,   *)
(* nor the sub-stream's Close, nor the connection's close; and a handler   *)
(* that registered removes its identity before it runs any of these.      *)
ServerClosed(c) ==
    \E k \in 1..Len(h[c].ran) : h[c].ran[k] \in {"closeClient", "closeStream", "closeConn"}
C35_LookupNeverClosed ==
    /\ [](\A md \in ClientMDs :
            LET r == ClientFromContext(md, clients)
            IN  r.code = "OK" => (r.client \in Proxies /\ ~ServerClosed(r.client.conn)))
    /\ [][(call' # call /\ call'.code = "OK") =>
            (~ServerClosed(call'.client.conn) /\ UNCHANGED h)]_vars
    /\ [](\A c \in Conns :
            (ServerClosed(c) /\ Count(h[c].made, "entry") = 1) =>
                /\ h[c].removed
                /\ SubSeq(h[c].ran, 1, 2) = <<"logInfo", "remove">>
                /\ ~Holds(c))

\* a lookup succeeds for one connection after another connection, which had
\* registered, has removed its identity and closed its proxy
C35_Witness ==
    \E c \in Conns : \E d \in Conns \ {c} :
        /\ call.code = "OK" /\ call.client = Proxy(c) /\ d \in call.gone
        /\ Holds(c) /\ ~ServerClosed(c)
        /\ Count(h[d].made, "entry") = 1 /\ ServerClosed(d) /\ ProxyClosed(d)

(* C36: a connection whose registration fails because its identity is    *)
(* already registered leaves the existing entry alone: the failing add    *)
(* changes nothing, that handler's teardown never removes the identity,   *)
(* and an entry leaves the registry only in the teardown of the handler   *)
(* whose proxy it holds.                                                   *)
DupFailed(c) ==
    /\ h[c].pc \in {"return", "done"}
    /\ Count(h[c].made, "client") = 1
    /\ Count(h[c].made, "entry") = 0
C36_DuplicateKeepsFirst ==
    /\ [](\A c \in Conns :
            DupFailed(c) =>
                /\ ~h[c].removed
                /\ Count(h[c].ran, "remove") = 0
                /\ ~Holds(c))
    /\ [][\A c \in Conns :
            /\ (~DupFailed(c) /\ DupFailed(c)') =>
                  /\ mapHas(clients, h[c].id)
                  /\ clients[h[c].id] # Proxy(c)
                  /\ clients' = clients
            /\ (DupFailed(c) /\ h'[c] # h[c]) => clients' = clients]_vars
    /\ [][\A id \in DOMAIN clients :
            ~mapHas(clients', id) =>
                \E d \in Conns :
                    /\ clients[id] = Proxy(d) /\ h[d].id = id
                    /\ h[d].pc = "return" /\ ~h[d].removed /\ h'[d].removed]_vars

\* the handler of a connection that was refused has ended, after closing
\* what it had opened, and the identity is still registered with the proxy
\* of the connection that got it first
C36_Witness ==
    \E c \in Conns : \E d \in Conns \ {c} :
        /\ DupFailed(c) /\ h[c].pc = "done"
        /\ h[c].ran = <<"closeClient", "closeStream", "closeConn">>
        /\ h[d].id = h[c].id /\ Holds(d)

(***************************************************************************)
(* The error a failed set-up returns (SpecTeardown): the server's handler *)
(* and the client's connect, each with its deferred closes.                *)
(***************************************************************************)
NextTeardown ==
    \/ \E c \in Conns :
        \/ hStart(c)
        \/ hSendClientID(c)
        \/ hOpenStream(c)
        \/ hDial(c)
        \/ hAdd(c)
        \/ hAddListener(c)
        \/ hWait(c)
        \/ hDefer(c)
        \/ hReturn(c)
        \/ disconnect(c)
    \/ ccDial
    \/ ccGetID
    \/ ccOpenStream
    \/ ccGrpcDial
    \/ ccDeferredClose

\* the errors of the deferred closes, and the error of the step that failed
CloseNames == {"closeConn", "closeStream", "closeClient"}
IsCloseErr(e) == e \in CloseNames
IsStepErr(e) == e \notin CloseNames
\* the error with which the handler's body returns when it has created made
StepErrAfter(made) ==
    CASE Len(made) = 0 -> "sending client id"
      [] Len(made) = 1 -> "opening server->client grpc connection"
      [] Len(made) = 2 -> "dialing client's grpc server"
      [] OTHER -> "registering client"
RECURSIVE IsSubSeq(_, _)
IsSubSeq(p, q) ==
    IF p = << >> THEN TRUE
    ELSE IF q = << >> THEN FALSE
    ELSE IF Head(p) = Head(q) THEN IsSubSeq(Tail(p), Tail(q))
    ELSE IsSubSeq(p, Tail(q))

(* C26: the error that the handler, or the client's connect, returns      *)
(* starts with the error of the step that failed first and has the errors *)
(* of the failed closes appended after it; when the handler's body        *)
(* succeeded it holds the close errors alone.                              *)
C26_FirstErrorKept ==
    /\ \A c \in Conns :
         h[c].pc = "return" =>
            LET e == h[c].err
                body == SelectSeq(e, IsStepErr)
                closes == SelectSeq(e, IsCloseErr)
            IN  /\ e = body \o closes
                /\ IsSubSeq(closes, h[c].ran)
                /\ IF Count(added, c) = 1 THEN body = NoErr
                   ELSE /\ body # NoErr
                        /\ Head(e) = StepErrAfter(h[c].made)
    /\ cc.pc = "failed" =>
          /\ cc.err # NoErr
          /\ IsStepErr(Head(cc.err))
          /\ Tail(cc.err) \in {NoErr, <<"closeConn">>}
          /\ cc.conn = "none" <=> cc.err = <<"dial">>

\* a handler failed at registration and every one of its closes failed too,
\* and the client's connect failed with a close error as well
C26_Witness ==
    /\ \E c \in Conns :
         /\ h[c].pc = "return" /\ h[c].defers = << >>
         /\ Len(h[c].err) >= 4
         /\ Head(h[c].err) = "registering client"
    /\ cc.pc = "failed" /\ Len(cc.err) = 2

(***************************************************************************)
(* The pump's error branch on every error value (SpecErr): all sources    *)
(* were added, every pump is in l.Accept() and every source has broken.   *)
(***************************************************************************)
InitErr ==
    /\ InitNeg
    /\ InitReg
    /\ InitSrv
    /\ InitCli
    /\ mlListeners = [k \in 1..NumSources |-> k]
    /\ mlClosed = FALSE
    /\ mlWg = NumSources
    /\ mlErrChan = << >>
    /\ mlWarned = {}
    /\ adding = [s \in Sources |-> "spawned"]
    /\ pump = [s \in Sources |-> [pc |-> "accept", hold |-> NoConn, errs |-> 0, got |-> << >>]]
    /\ src = [s \in Sources |-> [pending |-> << >>, produced |-> 0, err |-> "failed"]]
    /\ acc = [pc |-> "idle", res |-> "none"]
    /\ dcount = [x \in Sessions |-> 0]
    /\ mlClose = [pc |-> "idle", i |-> 0, err |-> NoErr, called |-> << >>]
    /\ mlLock = 0
    /\ addCopy = [s \in Sources |-> << >>]

\* l.Accept() returns any error value
pumpAny(s) == pumpAcceptFrom(s, Errors)

NextErr ==
    \/ \E s \in Sources : pumpAny(s)
    \/ \E s \in Sources : pumpExit(s)

\* C30: a pump logs a warning for the error of its source if and only if
\* the error is not transient, and an error is transient exactly when its
\* chain holds the already-closed error or end-of-stream, or when its
\* outermost network operation error has a cause whose outermost system
\* call error is caused directly by connection-reset; operation errors with
\* a nil cause and other system call errors are not transient.
OpWrapsReset(e) ==
    \E i \in 1..Len(e) :
        /\ e[i] = "op" /\ \A k \in 1..(i - 1) : e[k] # "op"
        /\ \E j \in (i + 1)..(Len(e) - 1) :
             /\ e[j] = "syscall" /\ \A k \in (i + 1)..(j - 1) : e[k] # "syscall"
             /\ j + 1 = Len(e) /\ e[j + 1] = "ECONNRESET"
Transient(e) ==
    \/ \E i \in 1..Len(e) : e[i] \in {"closed", "EOF"}
    \/ OpWrapsReset(e)
C30_WarnIffNotTransient ==
    \A s \in Sources :
        /\ pump[s].errs >= 1 => (s \in mlWarned <=> ~Transient(pump[s].got))
        /\ pump[s].errs = 0 => s \notin mlWarned
        /\ pump[s].got \in {<<"op">>, <<"syscall">>, <<"op", "syscall">>,
                             <<"op", "syscall", "EPIPE">>, <<"op", "ECONNRESET">>,
                             <<"syscall", "ECONNRESET">>, <<"ECONNRESET">>, <<"plain">>}
             => s \in mlWarned
        /\ pump[s].got \in {<<"closed">>, <<"EOF">>, <<"wrap", "closed">>, <<"op", "EOF">>,
                             <<"op", "syscall", "ECONNRESET">>}
             => s \notin mlWarned

\* one pump got a connection-reset inside an operation error and logged
\* nothing, another got an operation error with a nil cause and logged it
C30_Witness ==
    \E s, t \in Sources :
        /\ pump[s].got = <<"op", "syscall", "ECONNRESET">> /\ s \notin mlWarned
        /\ pump[t].got = <<"op">> /\ t \in mlWarned
        /\ pump[s].pc = "done" /\ pump[t].pc = "done"

(***************************************************************************)
(* The specifications.                                                     *)
(***************************************************************************)
Init ==
    /\ InitNeg
    /\ InitReg
    /\ InitML
    /\ InitSrv
    /\ InitCli

SpecNeg == Init /\ [][NextNeg]_vars

SpecReg == Init /\ [][NextReg]_vars

SpecML == Init /\ [][NextML]_vars

\* the pump's error branch on every error value
SpecErr == InitErr /\ [][NextErr]_vars

\* the aggregator with AddListener taken step by step, and no Close
SpecAdd == Init /\ [][NextAdd]_vars

\* the goroutines of the aggregator and of its callers run when they can; the
\* sources, and whether AddListener and Close are called at all, are not forced
SpecMLFair ==
    /\ SpecML
    /\ \A s \in Sources : WF_vars(addSpawn(s))
    /\ \A s \in Sources : WF_vars(pumpAccept(s))
    /\ \A s \in Sources : WF_vars(pumpSelect(s))
    /\ \A s \in Sources : WF_vars(pumpExit(s))
    /\ WF_vars(accCall)
    /\ WF_vars(accSelect)
    /\ WF_vars(mlCloseWait)
    /\ WF_vars(mlCloseListeners)


\* ClientFromContext as a function of the call's metadata and the registry
SpecCFC == InitCFC /\ [][NextCFC]_vars

Spec == Init /\ [][Next]_vars

\* the client: connect, calls, ServeClientService, Close
SpecClient == Init /\ [][NextClient]_vars

\* SpecClient with the client's goroutines scheduled fairly; whether the
\* connection ends, whether Close is called and whether the shutdown signal
\* is fired are not forced
SpecClientFair ==
    /\ SpecClient
    /\ WF_vars(ccGetID)
    /\ WF_vars(ccOpenStream)
    /\ WF_vars(ccGrpcDial)
    /\ WF_vars(ccDeferredClose)
    /\ WF_vars(svcSpawn)
    /\ WF_vars(svcServe)
    /\ WF_vars(svcServeReturn)
    /\ WF_vars(watchStop)
    /\ WF_vars(closeStop)
    /\ WF_vars(closeReturn)

\* the handler and connect with their deferred closes
SpecTeardown == Init /\ [][NextTeardown]_vars

SpecServe == Init /\ [][NextServe]_vars

\* SpecServe with the handler goroutines and the accept goroutine scheduled
\* fairly; connections arriving or ending and the shutdown signal are not forced
SpecServeFair ==
    /\ SpecServe
    /\ \A c \in Conns : WF_vars(hSendClientID(c))
    /\ \A c \in Conns : WF_vars(hOpenStream(c))
    /\ \A c \in Conns : WF_vars(hDial(c))
    /\ \A c \in Conns : WF_vars(hAdd(c))
    /\ \A c \in Conns : WF_vars(hAddListener(c))
    /\ \A c \in Conns : WF_vars(hWait(c))
    /\ \A c \in Conns : WF_vars(hDefer(c))
    /\ \A c \in Conns : WF_vars(hReturn(c))
    /\ WF_vars(acceptErr)
    /\ WF_vars(acceptContinue)

\* every handler goroutine runs when it can; connections arriving, connections
\* ending and calls are not forced
SpecFair ==
    /\ Spec
    /\ \A c \in Conns : WF_vars(hSendClientID(c))
    /\ \A c \in Conns : WF_vars(hOpenStream(c))
    /\ \A c \in Conns : WF_vars(hDial(c))
    /\ \A c \in Conns : WF_vars(hAdd(c))
    /\ \A c \in Conns : WF_vars(hAddListener(c))
    /\ \A c \in Conns : WF_vars(hWait(c))
    /\ \A c \in Conns : WF_vars(hDefer(c))
    /\ \A c \in Conns : WF_vars(hReturn(c))

\* the same scheduling, with calls that carry one identity
SpecOwnFair ==
    /\ Init /\ [][NextOwn]_vars
    /\ \A c \in Conns : WF_vars(hSendClientID(c))
    /\ \A c \in Conns : WF_vars(hOpenStream(c))
    /\ \A c \in Conns : WF_vars(hDial(c))
    /\ \A c \in Conns : WF_vars(hAdd(c))
    /\ \A c \in Conns : WF_vars(hAddListener(c))
    /\ \A c \in Conns : WF_vars(hWait(c))
    /\ \A c \in Conns : WF_vars(hDefer(c))
    /\ \A c \in Conns : WF_vars(hReturn(c))

=============================================================================
